---------------------------- MODULE Spec2Model ----------------------------
(***************************************************************************)
(* Model of the recursive query decomposition and execution-plan          *)
(* composition engine (backend/query_decomposer.py, backend/recomposer.py,*)
(* backend/services/claude_service.py, backend/models.py).                *)
(*                                                                         *)
(* Scores are kept in hundredths (0.85 -> 85) and subtask weights in       *)
(* tenths (0.7 -> 7).  A composite score is the exact rational num/den;    *)
(* comparisons cross-multiply, so no precision is lost by integer          *)
(* division.                                                               *)
(***************************************************************************)
EXTENDS Integers, Sequences, FiniteSets, TLC

\* ------------------------------------------------------------------------
\* Program constants (backend/config.py)
\* ------------------------------------------------------------------------
SCORE_THRESHOLD_GOOD == 85
SCORE_IMPROVEMENT_EPSILON == 10
MAX_RECURSION_DEPTH == 2
\* top_k that _recursive_split passes to the nested search
SPLIT_TOP_K == 3

\* ------------------------------------------------------------------------
\* Bounds of the model
\* ------------------------------------------------------------------------
\* largest top_k a caller passes to search
MaxTopK == 2

\* Inputs of the search engine.  Every collaborator answers each call
\* independently, so these sets are deliberately small: a broad search finds
\* nothing or the two catalog entries in rank order, a per-subtask search
\* finds nothing or one entry, the decomposition oracle emits at most two
\* subtasks (text "A" with weight 1.0, text "B" with weight 0.5), and the
\* scoring oracle answers 0, 0.4 or 0.9.
TopTasks == {"A"}
TopKs == 1..MaxTopK
Scores == {0, 40, 90}
W1 == [id |-> 1, sim |-> 1]
W2 == [id |-> 2, sim |-> 2]
W3 == [id |-> 3, sim |-> 2]
EntryWeight(text) == IF text = "A" THEN 10 ELSE 5

NoPlan == [plan_type |-> "none"]

\* ------------------------------------------------------------------------
\* Helpers
\* ------------------------------------------------------------------------
Min2(a, b) == IF a < b THEN a ELSE b

\* Python slice s[:n]
Take(s, n) == SubSeq(s, 1, Min2(n, Len(s)))

RECURSIVE SumSeq(_)
SumSeq(s) == IF s = <<>> THEN 0 ELSE Head(s) + SumSeq(Tail(s))

\* A rational score num/den (den >= 1), in hundredths
Rat(n, d) == [num |-> n, den |-> d]
RECURSIVE GCD(_, _)
GCD(a, b) == IF b = 0 THEN a ELSE GCD(b, a % b)
RatLt(a, b) ==
    LET g == GCD(a.den, b.den)
    IN  a.num * (b.den \div g) < b.num * (a.den \div g)
RatGe(a, b) == ~RatLt(a, b)
RatGt(a, b) == RatLt(b, a)


\* ------------------------------------------------------------------------
\* Data of the search engine
\* ------------------------------------------------------------------------
\* A Workflow as built by Workflow.from_es_hit is [id, sim]: the catalog id
\* and the transient similarity_score copied from the hit's _score.

\* Broad-search results: SearchResult(workflow, score = hit _score)
CandidateLists == {<<>>, <<W2, W3, W1>>}

\* Hits of one per-subtask search (only results[0] is ever used)
HitLists == {<<>>, <<W1>>}

\* An entry of the "subtasks" list in the LLM's JSON answer; has_text is
\* FALSE for an entry without the required "text" key.
RawEntry(has_text, text) ==
    [has_text |-> has_text, text |-> text, weight |-> EntryWeight(text), task_type |-> "general"]

\* The "subtasks" lists the LLM answers with: none, one or two well-formed
\* entries, or a list with an entry that has no text
RawEntryLists ==
    {<<>>,
     <<RawEntry(TRUE, "A")>>,
     <<RawEntry(TRUE, "B")>>,
     <<RawEntry(TRUE, "A"), RawEntry(TRUE, "B")>>,
     <<RawEntry(FALSE, "A")>>,
     <<RawEntry(TRUE, "A"), RawEntry(FALSE, "B")>>}

\* Answers of the decomposition LLM call
RawDecompositions ==
    {[kind |-> k, entries |-> <<>>] : k \in {"api_error", "unparseable", "not_object", "no_key", "null_list"}}
    \cup {[kind |-> "ok", entries |-> e] : e \in RawEntryLists}

\* ClaudeService.decompose_task: the except branch returns the single-task
\* fallback; a JSON object is answered with result.get("subtasks", []).
FallbackSubtasks(task) ==
    << [has_text |-> TRUE, text |-> task, weight |-> 10, task_type |-> "general"] >>

decompose_task(task, raw) ==
    CASE raw.kind = "api_error"   -> FallbackSubtasks(task)   \* generate() raised
      [] raw.kind = "unparseable" -> FallbackSubtasks(task)   \* json.loads raised
      [] raw.kind = "not_object"  -> FallbackSubtasks(task)   \* result.get raised AttributeError
      [] raw.kind = "null_list"   -> FallbackSubtasks(task)   \* len(None) raised TypeError
      [] raw.kind = "no_key"      -> <<>>                     \* result.get("subtasks", [])
      [] OTHER                    -> raw.entries

\* Subtask.from_dict raises KeyError on d["text"] when the key is missing
FromDictRaises(dicts) == \E i \in 1..Len(dicts) : ~dicts[i].has_text

Subtask_from_dict(d) == [text |-> d.text, task_type |-> d.task_type, weight |-> d.weight]

\* a maximum that takes the last of the candidates of equal score
BestCandidateIdx_Last(cands) ==
    CHOOSE i \in 1..Len(cands) :
        /\ \A j \in 1..Len(cands) : cands[j].sim <= cands[i].sim
        /\ \A j \in (i + 1)..Len(cands) : cands[j].sim < cands[i].sim

\* max(candidates, key=lambda x: x.score): the first candidate of maximal score
BestCandidateIdx(cands) ==
    CHOOSE i \in 1..Len(cands) :
        /\ \A j \in 1..Len(cands) : cands[j].sim <= cands[i].sim
        /\ \A j \in 1..(i - 1) : cands[j].sim < cands[i].sim

\* Indices i..n of the subtasks whose search returned at least one workflow
RECURSIVE MatchedIdx(_, _)
MatchedIdx(hits, i) ==
    IF i > Len(hits) THEN <<>>
    ELSE (IF hits[i] # <<>> THEN <<i>> ELSE <<>>) \o MatchedIdx(hits, i + 1)

\* the plain average of the scores, the weights ignored
WeightedScore_Unweighted(subtasks, scores) ==
    IF Len(subtasks) > 0 THEN Rat(SumSeq(scores), Len(subtasks)) ELSE Rat(0, 1)

\* sum(weighted_scores) / total_weight if total_weight > 0 else 0.0
WeightedScore(subtasks, scores) ==
    LET ws == [k \in 1..Len(subtasks) |-> scores[k] * subtasks[k].weight]
        tw == SumSeq([k \in 1..Len(subtasks) |-> subtasks[k].weight])
    IN  IF tw > 0 THEN Rat(SumSeq(ws), tw) ELSE Rat(0, 1)

\* a composition that keeps the subtasks without results in its subtask list
ComposePlan_KeepUnmatched(subtasks, hits, scores) ==
    LET idx == MatchedIdx(hits, 1)
        m   == Len(idx)
        ms  == [k \in 1..m |-> subtasks[idx[k]]]
        bw  == [k \in 1..m |-> hits[idx[k]][1]]
        sc  == [k \in 1..m |-> scores[idx[k]]]
    IN  [workflows |-> bw, subtasks |-> subtasks,
         score |-> IF m = 0 THEN Rat(0, 1) ELSE WeightedScore(ms, sc),
         matched |-> m, total |-> Len(subtasks)]

\* _compose_plan_from_subtasks: hits[i] is the result list of subtask i,
\* scores[i] the oracle's score of (subtask i, hits[i][1]).
ComposePlan(subtasks, hits, scores) ==
    LET idx == MatchedIdx(hits, 1)
        m   == Len(idx)
        ms  == [k \in 1..m |-> subtasks[idx[k]]]
        bw  == [k \in 1..m |-> hits[idx[k]][1]]
        sc  == [k \in 1..m |-> scores[idx[k]]]
    IN  IF m = 0
        THEN [workflows |-> <<>>, subtasks |-> subtasks, score |-> Rat(0, 1),
              matched |-> 0, total |-> Len(subtasks)]
        ELSE [workflows |-> bw, subtasks |-> ms, score |-> WeightedScore(ms, sc),
              matched |-> m, total |-> Len(subtasks)]

\* _composite_to_plan: 1-to-1 mapping i -> i over range(len(subtasks))
CompositeToPlan(c) ==
    [plan_type |-> "composite",
     workflows |-> c.workflows,
     overall_score |-> c.score,
     subtasks |-> c.subtasks,
     subtask_workflow_mapping |-> [i \in 0..(Len(c.subtasks) - 1) |-> i],
     coverage |-> <<c.matched, c.total>>]

\* SearchPlan(plan_type="direct", workflows=..., overall_score=...)
DirectPlan(workflows, score) ==
    [plan_type |-> "direct",
     workflows |-> workflows,
     overall_score |-> Rat(score, 1),
     subtasks |-> <<>>,
     subtask_workflow_mapping |-> <<>>,
     coverage |-> <<0, 0>>]

\* Worst-matching subtask of _recursive_split: the first index of minimal
\* score below the initial worst_score = 1.0; 0 stands for worst_idx == -1.
WorstIdx_Last(scores) ==
    IF \A i \in 1..Len(scores) : scores[i] >= 100 THEN 0
    ELSE CHOOSE i \in 1..Len(scores) :
            /\ \A j \in 1..Len(scores) : scores[i] <= scores[j]
            /\ \A j \in (i + 1)..Len(scores) : scores[j] > scores[i]

WorstIdx(scores) ==
    IF \A i \in 1..Len(scores) : scores[i] >= 100 THEN 0
    ELSE CHOOSE i \in 1..Len(scores) :
            /\ \A j \in 1..Len(scores) : scores[i] <= scores[j]
            /\ \A j \in 1..(i - 1) : scores[j] > scores[i]

\* depth that search hands to _recursive_split, which hands it on to search
SplitDepth_NoIncrement(depth) == depth

SplitDepth(depth) == depth + 1

\* "if not candidates" of step 1
NoCandidates_Never(cands) == FALSE

NoCandidates(cands) == cands = <<>>

\* "if best_plan_score >= self.score_threshold_good" of step 3
AboveThreshold_Never(score) == score > 100

AboveThreshold(score) == score >= SCORE_THRESHOLD_GOOD


\* ------------------------------------------------------------------------
\* State
\* ------------------------------------------------------------------------
VARIABLES
    stack,          \* active invocations of RecursiveQueryDecomposer.search, outermost first
    ret,            \* the SearchPlan just returned by an invocation, until its caller resumes
    result,         \* SearchPlan returned by the top-level search call
    raised,         \* an exception has propagated out of the top-level search call
    nestedCalls,    \* recursive invocations of search so far
    lastDecompose,  \* task and LLM answer of the decompose_task call just made
    lastSplit,      \* the scores the oracle gave in the step of _recursive_split just made
    cIn,            \* arguments of a call of _compose_plan_from_subtasks checked on its own
    cOut,           \* the CompositePlan that call returned
    rIn,            \* arguments of a call of WorkflowRecomposer.recompose
    rOut,           \* the list of ExecutionDAG that call returned
    pIn,            \* arguments of a call of PricingEngine.calculate_workflow_price
    pOut,           \* the pricing breakdown that call returned
    session_cache,  \* CacheService._cache: the solutions kept under each session id
    estimates,      \* every client's call of estimate_price_and_search: where it is, what it holds
    lastBuy,        \* the latest call of buy_solution: its arguments, what it read, how it ended
    sorter,         \* a run of _infer_dependencies and _topological_sort: its nodes, round and result
    http_call,      \* a call of MarkClient._request: the attempts made and how it ended
    user_balances,  \* CommerceEngine.user_balances: credits of every user with an entry
    transactions,   \* CommerceEngine.transactions: the transaction log, oldest first
    carts,          \* CommerceEngine.carts: the items of every user's ShoppingCart
    creator_earnings, \* CommerceEngine.creator_earnings: credits paid out to every creator
    threads         \* the commerce requests being served: their locals and position

searchVars == <<stack, ret, result, raised, nestedCalls, lastDecompose, lastSplit>>
composeVars == <<cIn, cOut>>
recomposeVars == <<rIn, rOut>>
pricingVars == <<pIn, pOut>>
orchestratorVars == <<session_cache, estimates, lastBuy>>
sortVars == <<sorter>>
clientVars == <<http_call>>
commerceVars == <<user_balances, transactions, carts, creator_earnings, threads>>

NoRet == [kind |-> "none"]
NotCalled == [kind |-> "none"]
NoWorkflow == [id |-> 0, sim |-> 0]
NoDecompose == [kind |-> "none"]
NoSplit == [kind |-> "none"]
NoComposite == [workflows |-> <<>>, subtasks |-> <<>>, score |-> Rat(0, 1), matched |-> 0, total |-> 0]

Clients == {"c1", "c2"}
SessionIds == {"s1", "s2"}
NoEntry == [kind |-> "none"]

\* MarketplaceOrchestrator.__init__ with a new CacheService: nothing cached,
\* no call in progress
OrchestratorInit ==
    /\ session_cache = [sid \in SessionIds |-> NoEntry]
    /\ estimates = [c \in Clients |-> [pc |-> "idle"]]
    /\ lastBuy = NotCalled

Users == {"default_user", "new_user"}
Workers == {"t1", "t2"}
NoCart == [kind |-> "none"]
Idle == [pc |-> "idle", op |-> "none", user_id |-> "none", outcome |-> "none"]

\* CommerceEngine.__init__: the two seeded balances, no transaction, no cart,
\* no earnings, no request being served
CommerceInit ==
    /\ user_balances = [u \in {"default_user", "demo_agent"} |->
                            IF u = "default_user" THEN 5000 ELSE 10000]
    /\ transactions = <<>>
    /\ carts = [u \in Users |-> NoCart]
    /\ creator_earnings = [c \in {} |-> 0]
    /\ threads = [t \in Workers |-> Idle]

\* Locals of one invocation of search(task_description, top_k, depth).
\* ndecomp, nscore and nrec count the oracle calls and the recursive call
\* this invocation has made itself.
NewFrame(task, top_k, depth) ==
    [task |-> task, top_k |-> top_k, depth |-> depth, pc |-> "broad",
     candidates |-> <<>>, best_candidate |-> NoWorkflow, best |-> -1, subtasks |-> <<>>,
     composite |-> NoComposite, worst_idx |-> 0,
     ndecomp |-> 0, nscore |-> 0, nrec |-> 0]

Top == stack[Len(stack)]
Running(pc) == /\ stack # <<>>
               /\ Top.pc = pc

SetTop(f) == stack' = [stack EXCEPT ![Len(stack)] = f]

\* the innermost invocation returns plan to its caller
Return(plan) ==
    /\ stack' = SubSeq(stack, 1, Len(stack) - 1)
    /\ ret' = [kind |-> "return", plan |-> plan]
    /\ result' = IF Len(stack) = 1 THEN plan ELSE result

\* an exception unwinds every invocation: neither search nor
\* _recursive_split has a try block
Raise ==
    /\ stack' = <<>>
    /\ ret' = NoRet
    /\ raised' = TRUE
    /\ UNCHANGED result

\* Step 10 of search: the better of the direct pool and the composite
FinalPlan(f, composite) ==
    IF RatGt(composite.score, Rat(f.best, 1))
    THEN CompositeToPlan(composite)
    ELSE DirectPlan(Take(f.candidates, f.top_k), f.best)

SearchInit ==
    /\ stack = <<>>
    /\ ret = NoRet
    /\ result = NoPlan
    /\ raised = FALSE
    /\ nestedCalls = 0
    /\ lastDecompose = NoDecompose
    /\ lastSplit = NoSplit

\* The caller invokes search(task, top_k, depth=0)
Search(task, top_k) ==
    /\ stack = <<>>
    /\ result = NoPlan
    /\ ~raised
    /\ stack' = <<NewFrame(task, top_k, 0)>>
    /\ UNCHANGED <<ret, result, raised, nestedCalls, lastDecompose, lastSplit>>
    /\ UNCHANGED <<composeVars, recomposeVars, pricingVars, orchestratorVars, sortVars, clientVars, commerceVars>>

\* Step 1: broad search; no candidates is a terminal empty direct plan
BroadSearch ==
    /\ Running("broad")
    /\ \E cands \in CandidateLists :
          IF NoCandidates(cands)
          THEN Return(DirectPlan(<<>>, 0))
          ELSE /\ SetTop([Top EXCEPT !.candidates = cands, !.pc = "score"])
               /\ ret' = NoRet
               /\ UNCHANGED result
    /\ lastDecompose' = NoDecompose
    /\ lastSplit' = NoSplit
    /\ UNCHANGED <<raised, nestedCalls>>
    /\ UNCHANGED <<composeVars, recomposeVars, pricingVars, orchestratorVars, sortVars, clientVars, commerceVars>>

\* Steps 2-3: score the best candidate, return the pool when it is good
ScoreBest ==
    /\ Running("score")
    /\ \E s \in Scores :
          LET f == [Top EXCEPT !.best = s, !.nscore = @ + 1,
                               !.best_candidate = Top.candidates[BestCandidateIdx(Top.candidates)]]
          IN  IF AboveThreshold(s)
              THEN Return(DirectPlan(Take(f.candidates, f.top_k), s))
              ELSE /\ SetTop([f EXCEPT !.pc = "decompose"])
                   /\ ret' = NoRet
                   /\ UNCHANGED result
    /\ lastDecompose' = NoDecompose
    /\ lastSplit' = NoSplit
    /\ UNCHANGED <<raised, nestedCalls>>
    /\ UNCHANGED <<composeVars, recomposeVars, pricingVars, orchestratorVars, sortVars, clientVars, commerceVars>>

\* Step 4: decompose_task, then Subtask.from_dict on every entry
Decompose ==
    /\ Running("decompose")
    /\ \E raw \in RawDecompositions :
          LET dicts == decompose_task(Top.task, raw)
          IN  /\ lastDecompose' = [kind |-> "decompose", task |-> Top.task, raw |-> raw]
              /\ IF FromDictRaises(dicts)
                 THEN Raise
                 ELSE /\ SetTop([Top EXCEPT
                                   !.subtasks = [i \in 1..Len(dicts) |-> Subtask_from_dict(dicts[i])],
                                   !.ndecomp = @ + 1,
                                   !.pc = "compose"])
                      /\ ret' = NoRet
                      /\ UNCHANGED <<result, raised>>
    /\ lastSplit' = NoSplit
    /\ UNCHANGED nestedCalls
    /\ UNCHANGED <<composeVars, recomposeVars, pricingVars, orchestratorVars, sortVars, clientVars, commerceVars>>

\* Steps 5-8 and, when no split follows, step 10
Compose ==
    /\ Running("compose")
    /\ \E hits \in [1..Len(Top.subtasks) -> HitLists] :
       \E scores \in {sc \in [1..Len(Top.subtasks) -> Scores] :
                          \A i \in 1..Len(Top.subtasks) : hits[i] = <<>> => sc[i] = 0} :
          LET c == ComposePlan(Top.subtasks, hits, scores)
              n == Len(c.workflows)
              f == [Top EXCEPT !.composite = c, !.subtasks = <<>>, !.nscore = @ + n]
          IN  IF RatGe(c.score, Rat(f.best + SCORE_IMPROVEMENT_EPSILON, 1))
              THEN Return(CompositeToPlan(c))
              ELSE IF RatLt(c.score, Rat(SCORE_THRESHOLD_GOOD, 1)) /\ f.depth < MAX_RECURSION_DEPTH
                   THEN /\ SetTop([f EXCEPT !.pc = "split"])
                        /\ ret' = NoRet
                        /\ UNCHANGED result
                   ELSE Return(FinalPlan(f, c))
    /\ lastDecompose' = NoDecompose
    /\ lastSplit' = NoSplit
    /\ UNCHANGED <<raised, nestedCalls>>
    /\ UNCHANGED <<composeVars, recomposeVars, pricingVars, orchestratorVars, sortVars, clientVars, commerceVars>>


\* Step 9, first half (_recursive_split up to the nested search): rescore
\* every (subtask, workflow) pair, pick the worst and search its text.
RecursiveSplit ==
    /\ Running("split")
    /\ \E scores \in [1..Len(Top.composite.workflows) -> Scores] :
          LET n == Len(Top.composite.workflows)
              w == WorstIdx(scores)
              f == [Top EXCEPT !.nscore = @ + n, !.worst_idx = w]
          IN  /\ lastSplit' = [kind |-> "split", scores |-> scores]
              /\ IF w = 0
                 THEN /\ Return(FinalPlan(f, f.composite))
                      /\ UNCHANGED nestedCalls
                 ELSE /\ stack' = [stack EXCEPT ![Len(stack)] = [f EXCEPT !.pc = "await", !.nrec = @ + 1]]
                                    \o <<NewFrame(f.composite.subtasks[w].text, SPLIT_TOP_K, SplitDepth(f.depth))>>
                      /\ nestedCalls' = nestedCalls + 1
                      /\ ret' = NoRet
                      /\ UNCHANGED result
    /\ lastDecompose' = NoDecompose
    /\ UNCHANGED raised
    /\ UNCHANGED <<composeVars, recomposeVars, pricingVars, orchestratorVars, sortVars, clientVars, commerceVars>>

\* Step 9, second half: the nested search has returned; substitute its first
\* workflow for the worst subtask, rescore, and finish search (steps 9-10).
SplitResume ==
    /\ Running("await")
    /\ ret # NoRet
    /\ LET rp == ret.plan
           c  == Top.composite
           n  == Len(c.workflows)
       IN  IF rp.workflows = <<>>
           THEN /\ Return(FinalPlan(Top, c))
                /\ lastSplit' = NoSplit
           ELSE \E scores \in [1..n -> Scores] :
                   LET iw  == [c.workflows EXCEPT ![Top.worst_idx] = rp.workflows[1]]
                       imp == [c EXCEPT !.workflows = iw, !.score = WeightedScore(c.subtasks, scores)]
                       f   == [Top EXCEPT !.nscore = @ + n]
                   IN  /\ lastSplit' = [kind |-> "resume", scores |-> scores]
                       /\ IF RatGt(imp.score, c.score)
                          THEN Return(CompositeToPlan(imp))
                          ELSE Return(FinalPlan(f, c))
    /\ lastDecompose' = NoDecompose
    /\ UNCHANGED <<raised, nestedCalls>>
    /\ UNCHANGED <<composeVars, recomposeVars, pricingVars, orchestratorVars, sortVars, clientVars, commerceVars>>

SearchNext ==
    \/ \E task \in TopTasks, top_k \in TopKs : Search(task, top_k)
    \/ BroadSearch
    \/ ScoreBest
    \/ Decompose
    \/ Compose
    \/ RecursiveSplit
    \/ SplitResume

vars == <<searchVars, composeVars, recomposeVars, pricingVars, orchestratorVars, sortVars, clientVars, commerceVars>>

Init ==
    /\ SearchInit
    /\ cIn = NotCalled
    /\ cOut = NotCalled
    /\ rIn = NotCalled
    /\ rOut = NotCalled
    /\ pIn = NotCalled
    /\ pOut = NotCalled
    /\ OrchestratorInit
    /\ sorter = NotCalled
    /\ http_call = NotCalled
    /\ CommerceInit

Next == SearchNext

Spec == Init /\ [][Next]_vars


\* ------------------------------------------------------------------------
\* Properties of the search engine (specification Spec)
\* ------------------------------------------------------------------------
\* A step in which the innermost invocation returns normally
Returned == /\ Len(stack') < Len(stack)
            /\ ~raised'

IsComposite(p) == p.plan_type = "composite"
IsDirect(p) == p.plan_type = "direct"

\* Progress measure of a call tree: every step of the engine lowers it
PcRank(pc) ==
    CASE pc = "broad" -> 6 [] pc = "score" -> 5 [] pc = "decompose" -> 4
      [] pc = "compose" -> 3 [] pc = "split" -> 2 [] OTHER -> 1

RECURSIVE Pow8(_)
Pow8(n) == IF n <= 0 THEN 1 ELSE 8 * Pow8(n - 1)

Measure ==
    IF stack = <<>>
    THEN (IF result = NoPlan /\ ~raised THEN 8 * Pow8(MAX_RECURSION_DEPTH) ELSE 0)
    ELSE SumSeq([i \in 1..Len(stack) |->
                    PcRank(stack[i].pc) * Pow8(MAX_RECURSION_DEPTH - stack[i].depth)])

DepthBounded ==
    /\ nestedCalls <= MAX_RECURSION_DEPTH
    /\ Len(stack) <= MAX_RECURSION_DEPTH + 1
    /\ \A i \in 1..Len(stack) :
          /\ stack[i].depth = i - 1
          /\ stack[i].nrec <= 1
          /\ stack[i].nrec = 1 => stack[i].depth < MAX_RECURSION_DEPTH

\* C1: a top-level search makes at most max_depth nested recursive
\* invocations; every invocation makes at most one recursive call, the callee
\* runs one level deeper than its caller, no invocation at depth >= max_depth
\* recurses, and every step lowers a non-negative measure, so the call ends.
C1_TerminationBound ==
    /\ [](DepthBounded /\ Measure >= 0)
    /\ [][Measure' < Measure]_vars

\* C1 witness: three nested invocations, the innermost at depth max_depth
C1_Witness ==
    /\ Len(stack) = MAX_RECURSION_DEPTH + 1
    /\ nestedCalls = MAX_RECURSION_DEPTH
    /\ Top.depth = MAX_RECURSION_DEPTH
    /\ Top.pc = "compose"

\* C4: when the oracle scores the best broad-search candidate at or above
\* tau_good, search returns at once a direct plan carrying that score and the
\* first top_k candidates, having never called decompose_task; it goes on to
\* decompose only with a score below tau_good.
C4_ThresholdShortCircuit ==
    [][Running("score") =>
         IF Returned
         THEN /\ IsDirect(ret'.plan)
              /\ ret'.plan.overall_score.den = 1
              /\ ret'.plan.overall_score.num >= SCORE_THRESHOLD_GOOD
              /\ ret'.plan.workflows = Take(Top.candidates, Top.top_k)
              /\ Top.ndecomp = 0
              /\ lastDecompose' = NoDecompose
         ELSE /\ Len(stack') = Len(stack)
              /\ stack'[Len(stack')].pc = "decompose"
              /\ stack'[Len(stack')].best < SCORE_THRESHOLD_GOOD
              /\ stack'[Len(stack')].ndecomp = 0]_vars

\* C4 witness: the top-level call with top_k = 1 has returned the first of
\* two candidates as a direct plan with a score above tau_good
C4_Witness ==
    /\ stack = <<>>
    /\ IsDirect(result)
    /\ result.overall_score.num >= SCORE_THRESHOLD_GOOD
    /\ result.workflows = <<W2>>

\* C5: a search that has decomposed its task returns a plan scoring at least
\* the best direct score, and a direct plan only as the candidate pool with
\* that score.
C5_ReturnsBetterPlan ==
    [][(/\ stack # <<>>
        /\ Top.pc \in {"compose", "split", "await"}
        /\ Returned)
       => /\ RatGe(ret'.plan.overall_score, Rat(Top.best, 1))
          /\ IsDirect(ret'.plan) =>
                ret'.plan = DirectPlan(Take(Top.candidates, Top.top_k), Top.best)]_vars

\* C7: a failed or malformed decomposition leaves search with exactly one
\* subtask, the original task with weight 1.0, and raises nothing.
Malformed(raw) ==
    \/ raw.kind # "ok"
    \/ \E i \in 1..Len(raw.entries) : ~raw.entries[i].has_text

C7_DecomposeFallback ==
    (lastDecompose # NoDecompose /\ Malformed(lastDecompose.raw))
    => /\ ~raised
       /\ stack # <<>>
       /\ Top.subtasks = <<[text |-> lastDecompose.task, task_type |-> "general", weight |-> 10]>>

\* C8: a broad search without candidates makes search return the empty direct
\* plan with score 0, before any oracle call; otherwise search keeps the
\* non-empty candidate list and goes on.
C8_NoCandidates ==
    [][Running("broad") =>
         IF Len(stack') < Len(stack)
         THEN /\ ~raised'
              /\ ret'.plan = DirectPlan(<<>>, 0)
              /\ Top.nscore = 0
              /\ Top.ndecomp = 0
         ELSE /\ Len(stack') = Len(stack)
              /\ stack'[Len(stack')].candidates # <<>>]_vars

\* C8 witness: a nested search found no candidates and returned the empty
\* direct plan to its caller
C8_Witness ==
    /\ Running("await")
    /\ ret # NoRet
    /\ ret.plan = DirectPlan(<<>>, 0)

\* C9: every composite plan returned maps exactly the indices of its
\* subtasks, one to one, onto valid indices of its workflows; dropped
\* subtasks are not among the keys.
ValidMapping(p) ==
    /\ DOMAIN p.subtask_workflow_mapping = 0..(Len(p.subtasks) - 1)
    /\ \A k \in DOMAIN p.subtask_workflow_mapping :
          p.subtask_workflow_mapping[k] \in 0..(Len(p.workflows) - 1)
    /\ Len(p.subtasks) = p.coverage[1]
    /\ p.coverage[1] <= p.coverage[2]
    /\ Len(p.subtasks) >= 1

C9_MappingValid ==
    /\ (ret # NoRet /\ IsComposite(ret.plan)) => ValidMapping(ret.plan)
    /\ IsComposite(result) => ValidMapping(result)

\* C9 witness: the top-level call returned a composite plan that covers one
\* of two subtasks
C9_Witness ==
    /\ IsComposite(result)
    /\ result.coverage = <<1, 2>>
    /\ DOMAIN result.subtask_workflow_mapping = {0}


\* the candidate of cands at position i is the first of maximal score
FirstOfMaximalScore(cands, i) ==
    /\ \A j \in 1..Len(cands) : cands[j].sim <= cands[i].sim
    /\ \A j \in 1..(i - 1) : cands[j].sim < cands[i].sim

MaxComposeSubtasks == 3

\* subtask weights 0.5, 0.7 and 1.0
ComposeWeights == {5, 7, 10}

\* The arguments of the call and the answers of its collaborators: n
\* subtasks, the hits of each subtask's search, the oracle's score of each
\* (subtask, top hit) pair; the scores of subtasks without hits are never
\* asked for and stay 0
ComposeInput(n, w, h, sc) ==
    [kind |-> "compose",
     subtasks |-> [i \in 1..n |-> [text |-> "A", task_type |-> "general", weight |-> w[i]]],
     hits |-> h,
     scores |-> [i \in 1..n |-> IF h[i] = <<>> THEN 0 ELSE sc[i]]]

ComposeInit ==
    /\ SearchInit
    /\ \E n \in 0..MaxComposeSubtasks :
          \E w \in [1..n -> ComposeWeights], h \in [1..n -> HitLists], sc \in [1..n -> Scores] :
              cIn = ComposeInput(n, w, h, sc)
    /\ cOut = NotCalled
    /\ rIn = NotCalled
    /\ rOut = NotCalled
    /\ pIn = NotCalled
    /\ pOut = NotCalled
    /\ OrchestratorInit
    /\ sorter = NotCalled
    /\ http_call = NotCalled
    /\ CommerceInit

\* One call of _compose_plan_from_subtasks
ComposeCall ==
    /\ cOut = NotCalled
    /\ cOut' = [kind |-> "composite", plan |-> ComposePlan(cIn.subtasks, cIn.hits, cIn.scores)]
    /\ UNCHANGED <<cIn, recomposeVars, pricingVars, orchestratorVars, sortVars, clientVars, commerceVars>>
    /\ UNCHANGED searchVars

ComposeNext == ComposeCall

ComposeSpec == ComposeInit /\ [][ComposeNext]_vars

RECURSIVE SetSum(_, _)
SetSum(S, f) ==
    IF S = {} THEN 0
    ELSE LET x == CHOOSE y \in S : TRUE IN f[x] + SetSum(S \ {x}, f)

\* Subtasks of the composition's input whose search had at least one hit
MatchedSet == {i \in 1..Len(cIn.subtasks) : cIn.hits[i] # <<>>}

\* C6: the composite score is sum(score_i * weight_i) / sum(weight_i) over
\* the subtasks with at least one hit; the subtasks without hits are dropped,
\* enter neither sum and do not stop the others from being composed; with no
\* hit at all the score is 0 and the plan has no workflow.
C6_CompositeScore ==
    cOut # NotCalled =>
        LET c == cOut.plan
            n == Len(cIn.subtasks)
            M == MatchedSet
            weighted == SetSum(M, [i \in 1..n |-> cIn.scores[i] * cIn.subtasks[i].weight])
            total == SetSum(M, [i \in 1..n |-> cIn.subtasks[i].weight])
        IN  IF M = {}
            THEN c.score.num = 0 /\ c.workflows = <<>>
            ELSE /\ c.score.num * total = weighted * c.score.den
                 /\ c.score.den > 0
                 /\ Len(c.workflows) = Cardinality(M)
                 /\ Len(c.subtasks) = Cardinality(M)
                 /\ c.matched = Cardinality(M)
                 /\ c.total = n

\* C6 witness: weights 1.0, 0.7, 0.5, every subtask matched and scored 0.9,
\* composite score 0.9
C6_Witness ==
    /\ cOut # NotCalled
    /\ Len(cIn.subtasks) = 3
    /\ [i \in 1..3 |-> cIn.subtasks[i].weight] = <<10, 7, 5>>
    /\ MatchedSet = {1, 2, 3}
    /\ cIn.scores = <<90, 90, 90>>
    /\ cOut.plan.score.num = 90 * cOut.plan.score.den


\* ------------------------------------------------------------------------
\* WorkflowRecomposer (specification RecomposeSpec)
\* ------------------------------------------------------------------------
\* Node weights are in tenths, similarity and confidence in hundredths, costs
\* in tokens.  A node id n stands for the string "subtask_n".  The nodes of a
\* DAG are a sequence in the insertion order of the Python dict.

\* max_attempts of _topological_sort
MAX_ATTEMPTS == 5

\* "weight_diff > 0.15" of _infer_dependencies, in hundredths
WEIGHT_DIFF_THRESHOLD == 15

\* cost_score = max(0, 10 - total_cost / 1000) reaches 0 at this total cost
COST_SCORE_ZERO_AT == 10000

\* TASK_PRECEDENCE.get(task_type, 6)
TaskPrecedence(task_type) ==
    CASE task_type = "data_gathering" -> 1
      [] task_type = "validation"     -> 2
      [] task_type = "requirements"   -> 3
      [] task_type = "computation"    -> 4
      [] task_type = "tax_filing"     -> 5
      [] task_type = "filing"         -> 5
      [] task_type = "general"        -> 6
      [] OTHER                        -> 6

\* SubtaskNode(id=..., workflow=..., weight=..., confidence_score=workflow.similarity_score)
SubtaskNode(id, workflow, weight) ==
    [id |-> id, workflow |-> workflow, weight |-> weight,
     confidence_score |-> workflow.sim, dependencies |-> <<>>, children |-> <<>>]

\* nodes[node_id]
NodeOf(nodes, id) == nodes[CHOOSE k \in 1..Len(nodes) : nodes[k].id = id]

NodeIds(nodes) == [k \in 1..Len(nodes) |-> nodes[k].id]

SeqToSet(s) == {s[k] : k \in 1..Len(s)}

\* Position of x in the sequence s, 0 when absent
IndexOf(s, x) ==
    IF x \in SeqToSet(s) THEN CHOOSE k \in 1..Len(s) : s[k] = x /\ \A j \in 1..(k - 1) : s[j] # x
    ELSE 0

\* list.remove(x): the first occurrence is deleted
Remove(s, x) ==
    LET k == IndexOf(s, x)
    IN  IF k = 0 THEN s ELSE SubSeq(s, 1, k - 1) \o SubSeq(s, k + 1, Len(s))

\* The positions i..n whose flag is set
RECURSIVE FlaggedIdx(_, _)
FlaggedIdx(flags, i) ==
    IF i > Len(flags) THEN <<>>
    ELSE (IF flags[i] THEN <<i>> ELSE <<>>) \o FlaggedIdx(flags, i + 1)

\* Rules 1 and 2 of _infer_dependencies: potential_parent becomes a
\* dependency of node
IsParentOf(potential_parent, node) ==
    \/ TaskPrecedence(potential_parent.workflow.task_type) < TaskPrecedence(node.workflow.task_type)
    \/ /\ TaskPrecedence(potential_parent.workflow.task_type) >= TaskPrecedence(node.workflow.task_type)
       /\ 10 * (potential_parent.weight - node.weight) > WEIGHT_DIFF_THRESHOLD

\* _infer_dependencies: the loops visit every ordered pair once, so each list
\* is filled in ascending position
InferDependencies(nodes) ==
    LET n == Len(nodes)
        parents(i) == FlaggedIdx([j \in 1..n |-> j # i /\ IsParentOf(nodes[j], nodes[i])], 1)
        kids(j) == FlaggedIdx([i \in 1..n |-> i # j /\ IsParentOf(nodes[j], nodes[i])], 1)
    IN  [i \in 1..n |->
            [nodes[i] EXCEPT
                !.dependencies = [k \in 1..Len(parents(i)) |-> nodes[parents(i)[k]].id],
                !.children = [k \in 1..Len(kids(i)) |-> nodes[kids(i)[k]].id]]]

\* Stable sort of a list of node ids by weight, heaviest first
RECURSIVE InsertByWeight(_, _, _)
InsertByWeight(nodes, s, x) ==
    IF s = <<>> THEN <<x>>
    ELSE IF NodeOf(nodes, Head(s)).weight >= NodeOf(nodes, x).weight
         THEN <<Head(s)>> \o InsertByWeight(nodes, Tail(s), x)
         ELSE <<x>> \o s

RECURSIVE SortByWeight(_, _)
SortByWeight(nodes, s) ==
    IF s = <<>> THEN <<>>
    ELSE InsertByWeight(nodes, SortByWeight(nodes, SubSeq(s, 1, Len(s) - 1)), s[Len(s)])

\* The while-queue loop of Kahn's algorithm
RECURSIVE KahnLoop(_, _, _, _)
KahnLoop(nodes, in_degree, queue, sorted_order) ==
    IF queue = <<>> THEN sorted_order
    ELSE LET q == SortByWeight(nodes, queue)
             node_id == Head(q)
             kids == NodeOf(nodes, node_id).children
             deg == [id \in DOMAIN in_degree |->
                        IF id \in SeqToSet(kids) THEN in_degree[id] - 1 ELSE in_degree[id]]
             ready == SelectSeq(kids, LAMBDA c : deg[c] = 0)
         IN  KahnLoop(nodes, deg, Tail(q) \o ready, Append(sorted_order, node_id))

\* One pass of Kahn's algorithm over the current edges
Kahn(nodes) ==
    LET in_degree == [id \in SeqToSet(NodeIds(nodes)) |-> Len(NodeOf(nodes, id).dependencies)]
        queue == SelectSeq(NodeIds(nodes), LAMBDA id : in_degree[id] = 0)
    IN  KahnLoop(nodes, in_degree, queue, <<>>)


\* The (parent_id, child_id) pairs in the order _find_weakest_edge_in_cycle
\* visits them: every node left unsorted, each with its dependencies in turn
RECURSIVE CycleEdges(_, _)
CycleEdges(nodes, cycle_nodes) ==
    IF cycle_nodes = <<>> THEN <<>>
    ELSE LET child_id == Head(cycle_nodes)
             deps == NodeOf(nodes, child_id).dependencies
         IN  [k \in 1..Len(deps) |-> <<deps[k], child_id>>] \o CycleEdges(nodes, Tail(cycle_nodes))

\* edge_strength = (parent.weight - child.weight) + parent.weight * 0.1, in hundredths
EdgeStrength(nodes, edge) ==
    10 * (NodeOf(nodes, edge[1]).weight - NodeOf(nodes, edge[2]).weight) + NodeOf(nodes, edge[1]).weight

NoEdge == <<>>

\* a search that settles for the first edge it visits
FindWeakestEdgeInCycle_First(nodes, cycle_nodes) ==
    LET edges == CycleEdges(nodes, cycle_nodes)
    IN  IF edges = <<>> THEN NoEdge ELSE edges[1]

\* _find_weakest_edge_in_cycle: the first visited edge of least strength
FindWeakestEdgeInCycle(nodes, cycle_nodes) ==
    LET edges == CycleEdges(nodes, cycle_nodes)
    IN  IF edges = <<>> THEN NoEdge
        ELSE edges[CHOOSE k \in 1..Len(edges) :
                      /\ \A j \in 1..Len(edges) :
                            EdgeStrength(nodes, edges[k]) <= EdgeStrength(nodes, edges[j])
                      /\ \A j \in 1..(k - 1) :
                            EdgeStrength(nodes, edges[j]) > EdgeStrength(nodes, edges[k])]

\* a removal that also deletes the edge running the other way
RemoveEdge_BothWays(nodes, edge) ==
    [k \in 1..Len(nodes) |->
        IF nodes[k].id \in {edge[1], edge[2]}
        THEN [nodes[k] EXCEPT !.dependencies = Remove(Remove(@, edge[1]), edge[2]),
                              !.children = Remove(Remove(@, edge[1]), edge[2])]
        ELSE nodes[k]]

\* nodes[child_id].dependencies.remove(parent_id); nodes[parent_id].children.remove(child_id)
RemoveEdge(nodes, edge) ==
    [k \in 1..Len(nodes) |->
        IF nodes[k].id = edge[2]
        THEN [nodes[k] EXCEPT !.dependencies = Remove(@, edge[1])]
        ELSE IF nodes[k].id = edge[1]
        THEN [nodes[k] EXCEPT !.children = Remove(@, edge[2])]
        ELSE nodes[k]]

\* list.remove raises ValueError when the element is missing
RemoveRaises(nodes, edge) ==
    \/ edge[1] \notin SeqToSet(NodeOf(nodes, edge[2]).dependencies)
    \/ edge[2] \notin SeqToSet(NodeOf(nodes, edge[1]).children)

\* dependencies.clear() and children.clear() for every node left unsorted
ClearCycleEdges(nodes, cycle_nodes) ==
    [k \in 1..Len(nodes) |->
        IF nodes[k].id \in SeqToSet(cycle_nodes)
        THEN [nodes[k] EXCEPT !.dependencies = <<>>, !.children = <<>>]
        ELSE nodes[k]]

\* a sort that gives up with the partial order when cycles remain
FallbackOrder_KeepPartial(nodes, sorted_order) == sorted_order

\* sorted(nodes.keys(), key=lambda nid: nodes[nid].weight, reverse=True)
FallbackOrder(nodes, sorted_order) == SortByWeight(nodes, NodeIds(nodes))

\* The last Kahn pass after the attempts, with the weight-order fallback
FinalSort(nodes, raises) ==
    LET sorted_order == Kahn(nodes)
        complete == Len(sorted_order) = Len(nodes)
    IN  [nodes |-> nodes,
         order |-> IF complete THEN sorted_order ELSE FallbackOrder(nodes, sorted_order),
         fallback |-> ~complete,
         raises |-> raises]

\* The "while attempt < max_attempts" loop of _topological_sort
RECURSIVE SortAttempts(_, _)
SortAttempts(nodes, attempt) ==
    IF attempt >= MAX_ATTEMPTS THEN FinalSort(nodes, FALSE)
    ELSE LET sorted_order == Kahn(nodes)
             cycle_nodes == SelectSeq(NodeIds(nodes), LAMBDA id : id \notin SeqToSet(sorted_order))
             weakest_edge == FindWeakestEdgeInCycle(nodes, cycle_nodes)
         IN  IF Len(sorted_order) = Len(nodes)
             THEN [nodes |-> nodes, order |-> sorted_order, fallback |-> FALSE, raises |-> FALSE]
             ELSE IF weakest_edge # NoEdge
             THEN IF RemoveRaises(nodes, weakest_edge)
                  THEN [nodes |-> nodes, order |-> <<>>, fallback |-> FALSE, raises |-> TRUE]
                  ELSE SortAttempts(RemoveEdge(nodes, weakest_edge), attempt + 1)
             ELSE FinalSort(ClearCycleEdges(nodes, cycle_nodes), FALSE)

\* _topological_sort: the execution order, the nodes with the edges it left,
\* whether the fallback order was used and whether an exception escaped
TopologicalSort(nodes) == SortAttempts(nodes, 0)

\* download cost summed over every node, shared workflows charged again
TotalDownload_NoDedup(nodes) ==
    SumSeq([k \in 1..Len(nodes) |-> nodes[k].workflow.download_cost])

\* total_download: a workflow_id is charged when a node first carries it
TotalDownload(nodes) ==
    SumSeq([k \in 1..Len(nodes) |->
               IF \E j \in 1..(k - 1) : nodes[j].workflow.id = nodes[k].workflow.id
               THEN 0 ELSE nodes[k].workflow.download_cost])

\* total_execution = sum(node.execution_tokens for node in nodes.values())
TotalExecution(nodes) ==
    SumSeq([k \in 1..Len(nodes) |-> nodes[k].workflow.execution_cost])

\* overall_confidence = sum(confidence * weight) / sum(weight) if nodes else 0.0
OverallConfidence(nodes) ==
    IF nodes = <<>> THEN Rat(0, 1)
    ELSE Rat(SumSeq([k \in 1..Len(nodes) |-> nodes[k].confidence_score * nodes[k].weight]),
             SumSeq([k \in 1..Len(nodes) |-> nodes[k].weight]))

NoDag == [kind |-> "none"]

\* The ExecutionDAG built from nodes without edges: infer, sort, price
BuildDag(strategy, fresh_nodes, coverage) ==
    LET srt == TopologicalSort(InferDependencies(fresh_nodes))
        nodes == srt.nodes
    IN  [kind |-> strategy,
         nodes |-> nodes,
         root_ids |-> SelectSeq(NodeIds(nodes), LAMBDA id : NodeOf(nodes, id).dependencies = <<>>),
         execution_order |-> srt.order,
         total_download_cost |-> TotalDownload(nodes),
         total_execution_cost |-> TotalExecution(nodes),
         coverage |-> coverage,
         overall_confidence |-> OverallConfidence(nodes),
         fallback |-> srt.fallback,
         raises |-> srt.raises]

\* _create_dag_from_composite
CreateDagFromComposite(search_plan) ==
    IF search_plan.subtasks = <<>> \/ DOMAIN search_plan.subtask_workflow_mapping = {}
    THEN NoDag
    ELSE LET n == Cardinality(DOMAIN search_plan.subtask_workflow_mapping)
             fresh == [k \in 1..n |->
                          SubtaskNode(k - 1,
                                      search_plan.workflows[search_plan.subtask_workflow_mapping[k - 1] + 1],
                                      search_plan.subtasks[k].weight)]
         IN  BuildDag("composite", fresh, search_plan.coverage)

\* The one-node ExecutionDAG of the single-workflow and variant strategies
OneNodeDag(strategy, workflow) ==
    LET node == SubtaskNode(0, workflow, 10)
    IN  [kind |-> strategy,
         nodes |-> <<node>>,
         root_ids |-> <<0>>,
         execution_order |-> <<0>>,
         total_download_cost |-> node.workflow.download_cost,
         total_execution_cost |-> node.workflow.execution_cost,
         coverage |-> <<1, 1>>,
         overall_confidence |-> Rat(node.confidence_score, 1),
         fallback |-> FALSE,
         raises |-> FALSE]

\* _create_single_workflow_dag_from_plan
CreateSingleWorkflowDag(search_plan) ==
    IF search_plan.workflows = <<>> THEN NoDag
    ELSE OneNodeDag("single", search_plan.workflows[1])

\* _create_variant_dag_from_plan
CreateVariantDag(search_plan, variant) ==
    IF variant >= Len(search_plan.workflows) THEN NoDag
    ELSE OneNodeDag("variant",
                    search_plan.workflows[Min2(variant, Len(search_plan.workflows) - 1) + 1])


\* Score of a workflow for a subtask in _match_subtasks_to_workflows_from_pool,
\* in thousandths: the cosine similarity when the workflow has an embedding,
\* its similarity_score otherwise, times 1.2 when the task types agree
MatchScore(subtask, workflow, cosine) ==
    LET score == IF workflow.embedding THEN cosine ELSE workflow.sim
    IN  IF workflow.task_type = subtask.task_type THEN score * 12 ELSE score * 10

\* Position of best_workflow in the pool, 0 for None: the first workflow of
\* the highest score above the initial best_score = -1
BestWorkflowIdx(subtask, workflows, cosine) ==
    IF \A j \in 1..Len(workflows) : MatchScore(subtask, workflows[j], cosine) <= -1000
    THEN 0
    ELSE CHOOSE j \in 1..Len(workflows) :
            /\ \A i \in 1..Len(workflows) :
                  MatchScore(subtask, workflows[i], cosine) <= MatchScore(subtask, workflows[j], cosine)
            /\ \A i \in 1..(j - 1) :
                  MatchScore(subtask, workflows[i], cosine) < MatchScore(subtask, workflows[j], cosine)

\* _create_multi_workflow_dag_from_plan
CreateMultiWorkflowDag(subtasks, search_plan, cos) ==
    LET best == [i \in 1..Len(subtasks) |-> BestWorkflowIdx(subtasks[i], search_plan.workflows, cos[i])]
        matched == FlaggedIdx([i \in 1..Len(subtasks) |-> best[i] # 0], 1)
        fresh == [k \in 1..Len(matched) |->
                     SubtaskNode(matched[k] - 1,
                                 search_plan.workflows[best[matched[k]]],
                                 subtasks[matched[k]].weight)]
    IN  IF matched = <<>> THEN NoDag
        ELSE BuildDag("multi", fresh, <<Len(matched), Len(subtasks)>>)

\* score_dag of _rank_dags: overall_confidence * 10 + max(0, 10 - total_cost / 1000)
ScoreDag(dag) ==
    LET total_cost == dag.total_download_cost + dag.total_execution_cost
        cost_part == IF total_cost < COST_SCORE_ZERO_AT THEN COST_SCORE_ZERO_AT - total_cost ELSE 0
    IN  Rat(100 * dag.overall_confidence.num + dag.overall_confidence.den * cost_part,
            1000 * dag.overall_confidence.den)

\* an insertion that puts a DAG before the DAGs of equal score
RECURSIVE InsertByScore_Unstable(_, _)
InsertByScore_Unstable(s, dag) ==
    IF s = <<>> THEN <<dag>>
    ELSE IF RatGt(ScoreDag(Head(s)), ScoreDag(dag))
         THEN <<Head(s)>> \o InsertByScore_Unstable(Tail(s), dag)
         ELSE <<dag>> \o s

\* sorted(dags, key=score_dag, reverse=True): stable, best first
RECURSIVE InsertByScore(_, _)
InsertByScore(s, dag) ==
    IF s = <<>> THEN <<dag>>
    ELSE IF RatGe(ScoreDag(Head(s)), ScoreDag(dag))
         THEN <<Head(s)>> \o InsertByScore(Tail(s), dag)
         ELSE <<dag>> \o s

RECURSIVE RankDags(_)
RankDags(dags) ==
    IF dags = <<>> THEN <<>>
    ELSE InsertByScore(RankDags(SubSeq(dags, 1, Len(dags) - 1)), dags[Len(dags)])

\* The DAGs recompose builds, in the order it appends them
DagSolutions(subtasks, search_plan, top_k, cos) ==
    IF search_plan.plan_type = "composite"
    THEN <<CreateDagFromComposite(search_plan)>>
         \o (IF Len(search_plan.workflows) > 1
             THEN <<CreateSingleWorkflowDag(search_plan)>> ELSE <<>>)
    ELSE <<CreateSingleWorkflowDag(search_plan)>>
         \o (IF Len(search_plan.workflows) >= Len(subtasks)
             THEN <<CreateMultiWorkflowDag(subtasks, search_plan, cos)>> ELSE <<>>)
         \o [k \in 1..(Min2(top_k, Len(search_plan.workflows)) - 2) |->
                CreateVariantDag(search_plan, k + 1)]

\* recompose: build, rank, keep the first top_k
Recompose(subtasks, search_plan, top_k, cos) ==
    LET built == SelectSeq(DagSolutions(subtasks, search_plan, top_k, cos), LAMBDA d : d # NoDag)
    IN  IF \E k \in 1..Len(built) : built[k].raises
        THEN [kind |-> "raised", dags |-> <<>>]
        ELSE [kind |-> "returned", dags |-> Take(RankDags(built), top_k)]

\* Bounds of the recomposer's inputs
\* most nodes of a composite plan
MaxNodes == 5
\* largest top_k handed to recompose
MaxDagTopK == 3
\* most workflows in the pool of a direct plan
MaxPool == 3
\* most subtasks handed to recompose with a direct plan
MaxDirectSubtasks == 2

\* The catalog entries the plans refer to
CatTax == [id |-> 1, task_type |-> "tax_filing", sim |-> 90,
           download_cost |-> 200, execution_cost |-> 800, embedding |-> FALSE]
CatTrip == [id |-> 2, task_type |-> "travel_planning", sim |-> 50,
            download_cost |-> 300, execution_cost |-> 500, embedding |-> FALSE]
CatData == [id |-> 3, task_type |-> "data_gathering", sim |-> 90,
            download_cost |-> 12000, execution_cost |-> 100, embedding |-> TRUE]
CompositeCatalog == {CatTax, CatTrip}
PoolCatalog == {CatTax, CatTrip, CatData}
NodeWeights == {5, 10}
CosineValues == {-100, 95}
DirectSubtasks == {[text |-> "A", task_type |-> "tax_filing", weight |-> 10],
                   [text |-> "B", task_type |-> "general", weight |-> 5]}

\* recompose called with the composite plan search builds for n matched
\* subtasks of weights w and workflows wf
CompositeInput(n, w, wf, k) ==
    LET subtasks == [i \in 1..n |-> [text |-> "A", task_type |-> "general", weight |-> w[i]]]
    IN  [kind |-> "recompose",
         subtasks |-> subtasks,
         search_plan |-> CompositeToPlan([workflows |-> wf, subtasks |-> subtasks,
                                          score |-> Rat(0, 1), matched |-> n, total |-> n]),
         top_k |-> k,
         cos |-> <<>>]

\* recompose called with a direct plan over a pool of workflows
DirectInput(st, pool, k, c) ==
    [kind |-> "recompose", subtasks |-> st, search_plan |-> DirectPlan(pool, 0),
     top_k |-> k, cos |-> c]

\* Three subtasks A, B, C of weight 1.0, 0.6, 0.5 matched to a filing, a
\* data-gathering and a second filing workflow
FilingA == [id |-> 4, task_type |-> "filing", sim |-> 90,
            download_cost |-> 200, execution_cost |-> 800, embedding |-> FALSE]
FilingC == [id |-> 5, task_type |-> "filing", sim |-> 90,
            download_cost |-> 200, execution_cost |-> 800, embedding |-> FALSE]
ScenarioWeights == <<10, 6, 5>>
ScenarioWorkflows == <<FilingA, CatData, FilingC>>

RecomposeInit ==
    /\ SearchInit
    /\ cIn = NotCalled
    /\ cOut = NotCalled
    /\ \/ \E n \in 1..MaxNodes :
             \E w \in [1..n -> NodeWeights], wf \in [1..n -> CompositeCatalog], k \in 1..MaxDagTopK :
                 rIn = CompositeInput(n, w, wf, k)
       \/ \E m \in 1..MaxDirectSubtasks, p \in 0..MaxPool :
             \E st \in [1..m -> DirectSubtasks], pool \in [1..p -> PoolCatalog],
                k \in 1..MaxDagTopK, c \in [1..m -> CosineValues] :
                 rIn = DirectInput(st, pool, k, c)
       \/ \E k \in 1..MaxDagTopK : rIn = CompositeInput(3, ScenarioWeights, ScenarioWorkflows, k)
    /\ rOut = NotCalled
    /\ pIn = NotCalled
    /\ pOut = NotCalled
    /\ OrchestratorInit
    /\ sorter = NotCalled
    /\ http_call = NotCalled
    /\ CommerceInit

\* One call of WorkflowRecomposer.recompose
RecomposeCall ==
    /\ rOut = NotCalled
    /\ rOut' = Recompose(rIn.subtasks, rIn.search_plan, rIn.top_k, rIn.cos)
    /\ UNCHANGED <<composeVars, rIn, pricingVars, orchestratorVars, sortVars, clientVars, commerceVars>>
    /\ UNCHANGED searchVars

RecomposeNext == RecomposeCall

RecomposeSpec == RecomposeInit /\ [][RecomposeNext]_vars


\* ------------------------------------------------------------------------
\* Properties of the recomposer (specification RecomposeSpec)
\* ------------------------------------------------------------------------
\* The DAGs of the list recompose returned
ReturnedDags == IF rOut = NotCalled THEN {} ELSE SeqToSet(rOut.dags)

\* C2: in every DAG recompose returns, each dependency u of a node v that is
\* still in v.dependencies comes before v in execution_order.
C2_EdgesFollowOrder ==
    \A dag \in ReturnedDags :
        \A k \in 1..Len(dag.nodes) :
            \A u \in SeqToSet(dag.nodes[k].dependencies) :
                /\ IndexOf(dag.execution_order, u) > 0
                /\ IndexOf(dag.execution_order, dag.nodes[k].id) > 0
                /\ IndexOf(dag.execution_order, u) < IndexOf(dag.execution_order, dag.nodes[k].id)

\* C3: the topological sort of recompose never raises, and the execution
\* order of every DAG it returns lists every node id exactly once, also when
\* the cycles outlast the repair attempts.
C3_TotalOrder ==
    rOut # NotCalled =>
        /\ rOut.kind = "returned"
        /\ \A dag \in ReturnedDags :
              /\ Len(dag.execution_order) = Len(dag.nodes)
              /\ SeqToSet(dag.execution_order) = SeqToSet(NodeIds(dag.nodes))
              /\ Cardinality(SeqToSet(dag.execution_order)) = Len(dag.execution_order)

\* C3 witness: a returned DAG of five nodes whose cycles outlasted the repair
\* attempts and whose order is the weight-order fallback
C3_Witness ==
    \E dag \in ReturnedDags :
        /\ dag.fallback
        /\ Len(dag.nodes) = 5
        /\ Len(dag.execution_order) = 5

WorkflowIdsOf(dag) == {dag.nodes[k].workflow.id : k \in 1..Len(dag.nodes)}

DownloadCostOf(dag, id) ==
    LET k == CHOOSE j \in 1..Len(dag.nodes) : dag.nodes[j].workflow.id = id
    IN  dag.nodes[k].workflow.download_cost

\* C10: in every DAG recompose returns, total_download_cost is the sum of
\* download_cost over the distinct workflow ids of its nodes, and
\* total_execution_cost the sum of execution_cost over all its nodes.
C10_CostDedup ==
    \A dag \in ReturnedDags :
        /\ dag.total_download_cost =
              SetSum(WorkflowIdsOf(dag), [id \in WorkflowIdsOf(dag) |-> DownloadCostOf(dag, id)])
        /\ dag.total_execution_cost =
              SetSum(1..Len(dag.nodes), [k \in 1..Len(dag.nodes) |-> dag.nodes[k].workflow.execution_cost])

\* C10 witness: a returned DAG in which three nodes share one workflow, which
\* is downloaded once and executed three times
C10_Witness ==
    \E dag \in ReturnedDags :
        /\ Len(dag.nodes) = 3
        /\ WorkflowIdsOf(dag) = {1}
        /\ dag.total_download_cost = 200
        /\ dag.total_execution_cost = 2400


\* The candidates of the call in the order recompose generated them
GeneratedDags ==
    SelectSeq(DagSolutions(rIn.subtasks, rIn.search_plan, rIn.top_k, rIn.cos), LAMBDA d : d # NoDag)

\* The rank of the g-th generated DAG: one more than the number of DAGs that
\* score higher or that score the same and were generated earlier
RankOf(generated, g) ==
    1 + Cardinality({h \in 1..Len(generated) :
            \/ RatGt(ScoreDag(generated[h]), ScoreDag(generated[g]))
            \/ (h < g /\ ~RatLt(ScoreDag(generated[h]), ScoreDag(generated[g])))})

\* dags is the best top_k of generated, in rank order
IsRankedTopK(dags, generated, top_k) ==
    /\ Len(dags) = Min2(top_k, Len(generated))
    /\ \A i \in 1..(Len(dags) - 1) : RatGe(ScoreDag(dags[i]), ScoreDag(dags[i + 1]))
    /\ \A g \in 1..Len(generated) :
          RankOf(generated, g) <= Len(dags) => dags[RankOf(generated, g)] = generated[g]

\* C11: recompose returns min(top_k, generated) plans in non-increasing
\* ranking score; plans of equal score keep their generation order, and no
\* generated plan that scores higher than a returned one is left out.
C11_RankedTopK ==
    (rOut # NotCalled /\ rOut.kind = "returned") =>
        IsRankedTopK(rOut.dags, GeneratedDags, rIn.top_k)

\* C11 witness: more plans were generated than top_k allows, and the plan
\* returned first is not the first generated one but one that scores
\* strictly higher
C11_Witness ==
    /\ rOut # NotCalled
    /\ rOut.kind = "returned"
    /\ Len(rOut.dags) = rIn.top_k
    /\ LET generated == GeneratedDags
       IN  /\ Len(generated) > rIn.top_k
           /\ rOut.dags[1] # generated[1]
           /\ RatGt(ScoreDag(rOut.dags[1]), ScoreDag(generated[1]))


\* The composite DAGs returned for the subtasks A, B, C; their nodes have the
\* ids 0, 1, 2
ScenarioDags ==
    IF rOut # NotCalled /\ rIn.search_plan.workflows = ScenarioWorkflows
    THEN {dag \in ReturnedDags : dag.kind = "composite"}
    ELSE {}

\* C20: for A (1.0, filing), B (0.6, data_gathering), C (0.5, filing) the
\* resulting plan keeps the edges B -> A and B -> C and executes B first.
C20_ScenarioC ==
    \A dag \in ScenarioDags :
        /\ 1 \in SeqToSet(NodeOf(dag.nodes, 0).dependencies)
        /\ 1 \in SeqToSet(NodeOf(dag.nodes, 2).dependencies)
        /\ dag.execution_order[1] = 1

\* The generated DAGs of one strategy, in the order recompose appended them
OfStrategy(generated, strategy) == SelectSeq(generated, LAMBDA d : d.kind = strategy)

\* C26: for a direct plan with a pool of n >= 1 workflows, s subtasks and
\* top_k = k, recompose builds one single-node plan on the top workflow, one
\* plan with a workflow per subtask exactly when n >= s, and at most k - 2
\* single-node variants of which the j-th uses the workflow ranked j below
\* the top one.
C26_DirectStrategies ==
    (rOut # NotCalled /\ rIn.search_plan.plan_type = "direct" /\ rIn.search_plan.workflows # <<>>) =>
        LET generated == GeneratedDags
            workflows == rIn.search_plan.workflows
            singles == OfStrategy(generated, "single")
            multis == OfStrategy(generated, "multi")
            variants == OfStrategy(generated, "variant")
        IN  /\ Len(singles) = 1
            /\ singles[1].nodes[1].workflow = workflows[1]
            /\ Len(multis) = (IF Len(workflows) >= Len(rIn.subtasks) THEN 1 ELSE 0)
            /\ Len(variants) <= (IF rIn.top_k > 2 THEN rIn.top_k - 2 ELSE 0)
            /\ \A j \in 1..Len(variants) :
                  /\ j + 1 <= Len(workflows)
                  /\ variants[j].nodes[1].workflow = workflows[j + 1]

\* ------------------------------------------------------------------------
\* PricingEngine.  Prices and token counts are integers; a rating is kept in
\* tenths of a star, and a market rate or a multiplier as an exact fraction.
\* ------------------------------------------------------------------------
MIN_PRICE == 50
MAX_PRICE == 2000
BASE_PERCENTAGE == 15               \* hundredths
MARKET_VARIANCE_ALLOWED == 30       \* hundredths

MaxComparables == 3

Max2(a, b) == IF a > b THEN a ELSE b

\* int(round(x)) of x = num / den, den > 0: to the nearest integer, an exact
\* half to the even neighbour
Round(num, den) ==
    LET fl == num \div den
        twice == 2 * (num % den)
    IN  IF twice > den THEN fl + 1
        ELSE IF twice < den THEN fl
        ELSE IF fl % 2 = 0 THEN fl ELSE fl + 1

\* 0.7 + (rating / 5.0) * 0.6
calculate_quality_multiplier(rating) == Rat(350 + 6 * rating, 500)

\* int(round(tokens_saved * 0.15 * quality_multiplier))
calculate_base_price(tokens_saved, rating) ==
    LET qm == calculate_quality_multiplier(rating)
    IN  Round(tokens_saved * BASE_PERCENTAGE * qm.num, 100 * qm.den)

\* max(MIN_PRICE, min(price, MAX_PRICE))
constrain_price(price) == Max2(MIN_PRICE, Min2(price, MAX_PRICE))

RECURSIVE InsertPrice(_, _)
InsertPrice(s, x) ==
    IF s = <<>> THEN <<x>>
    ELSE IF x < Head(s) THEN <<x>> \o s
    ELSE <<Head(s)>> \o InsertPrice(Tail(s), x)

RECURSIVE SortPrices(_)
SortPrices(s) == IF s = <<>> THEN <<>> ELSE InsertPrice(SortPrices(Tail(s)), Head(s))

\* statistics.median: the middle value, or the mean of the two middle values
Median(prices) ==
    LET sorted == SortPrices(prices)
        n == Len(sorted)
    IN  IF n % 2 = 1 THEN Rat(sorted[(n + 1) \div 2], 1)
        ELSE Rat(sorted[n \div 2] + sorted[n \div 2 + 1], 2)

NoRate == Rat(0, 0)

\* calculate_market_rate: None for an empty list
calculate_market_rate(comparable_prices) ==
    IF comparable_prices = <<>> THEN NoRate ELSE Median(comparable_prices)

\* int(round(max(min_market, min(price, max_market))))
apply_market_constraint(price, market_rate) ==
    IF market_rate = NoRate THEN price
    ELSE LET min_market == Rat(market_rate.num * (100 - MARKET_VARIANCE_ALLOWED), market_rate.den * 100)
             max_market == Rat(market_rate.num * (100 + MARKET_VARIANCE_ALLOWED), market_rate.den * 100)
             p == Rat(price, 1)
             capped == IF RatLt(max_market, p) THEN max_market ELSE p
             clamped == IF RatLt(capped, min_market) THEN min_market ELSE capped
         IN  Round(clamped.num, clamped.den)

\* calculate_workflow_price, without the ROI figure and the breakdown text
calculate_workflow_price(avg_tokens_without, avg_tokens_with, rating, comparable_prices) ==
    LET tokens_saved == avg_tokens_without - avg_tokens_with
        base_price == calculate_base_price(tokens_saved, rating)
        constrained_price == constrain_price(base_price)
        market_rate == calculate_market_rate(comparable_prices)
        final_price == apply_market_constraint(constrained_price, market_rate)
    IN  [kind |-> "price",
         tokens_saved |-> tokens_saved,
         base_price |-> base_price,
         quality_multiplier |-> calculate_quality_multiplier(rating),
         constrained_price |-> constrained_price,
         market_rate |-> market_rate,
         final_price |-> final_price]

TokensWithout == {0, 1000, 5000, 20000}
TokensWith == {0, 1000}
Ratings == {0, 30, 48, 50}
ComparablePrices == {10, 72, 100, 5000}

PricingInit ==
    /\ SearchInit
    /\ cIn = NotCalled
    /\ cOut = NotCalled
    /\ rIn = NotCalled
    /\ rOut = NotCalled
    /\ \E without \in TokensWithout, with \in TokensWith, rating \in Ratings, n \in 0..MaxComparables :
          \E prices \in [1..n -> ComparablePrices] :
              pIn = [kind |-> "price", avg_tokens_without |-> without, avg_tokens_with |-> with,
                     rating |-> rating, comparable_prices |-> prices]
    /\ pOut = NotCalled
    /\ OrchestratorInit
    /\ sorter = NotCalled
    /\ http_call = NotCalled
    /\ CommerceInit

\* One call of PricingEngine.calculate_workflow_price
PriceCall ==
    /\ pOut = NotCalled
    /\ pOut' = calculate_workflow_price(pIn.avg_tokens_without, pIn.avg_tokens_with,
                                        pIn.rating, pIn.comparable_prices)
    /\ UNCHANGED <<pIn, composeVars, recomposeVars, orchestratorVars, sortVars, clientVars, commerceVars>>
    /\ UNCHANGED searchVars

PricingNext == PriceCall

PricingSpec == PricingInit /\ [][PricingNext]_vars

\* C12: for tokens_saved >= 0, a rating in [0, 5] and any list of comparable
\* prices, the final price lies between MIN_PRICE and MAX_PRICE.
C12_PriceBounds ==
    (pOut # NotCalled /\ pOut.tokens_saved >= 0) =>
        (MIN_PRICE <= pOut.final_price /\ pOut.final_price <= MAX_PRICE)

\* C13: with a non-empty list of comparable prices and tokens_saved >= 0, the
\* final price lies between 0.7 and 1.3 times the median of the list.
C13_MarketBand ==
    (pOut # NotCalled /\ pOut.tokens_saved >= 0 /\ pIn.comparable_prices # <<>>) =>
        LET median == Median(pIn.comparable_prices)
        IN  /\ 10 * pOut.final_price * median.den >= 7 * median.num
            /\ 10 * pOut.final_price * median.den <= 13 * median.num


\* ------------------------------------------------------------------------
\* MarketplaceOrchestrator and CacheService.  A solution id i stands for
\* the string "sol_i".
\* ------------------------------------------------------------------------
MaxSolutions == 2

SolutionIds == 1..(MaxSolutions + 1)
PurchaseIds == {"p1", "p2"}

\* Workflow.to_dict, the keys buy_solution reads back
Workflow_to_dict(workflow) ==
    [workflow_id |-> workflow.id,
     task_type |-> workflow.task_type,
     download_cost |-> workflow.download_cost,
     execution_cost |-> workflow.execution_cost,
     similarity_score |-> workflow.sim]

\* Workflow.from_dict: "d.get('download_cost') or d.get('token_cost', 0)" and
\* its like for the execution cost, with neither old key in the dict;
\* similarity_score and embedding are not read and keep their defaults
Workflow_from_dict(d) ==
    [id |-> d.workflow_id,
     task_type |-> d.task_type,
     sim |-> 0,
     download_cost |-> IF d.download_cost # 0 THEN d.download_cost ELSE 0,
     execution_cost |-> IF d.execution_cost # 0 THEN d.execution_cost ELSE 0,
     embedding |-> FALSE]

\* ExecutionDAG.to_dict_with_workflows: nodes, order and recalculated pricing
ToDictWithWorkflows(dag) ==
    [nodes |-> [k \in 1..Len(dag.nodes) |->
                   [dag.nodes[k] EXCEPT !.workflow = Workflow_to_dict(dag.nodes[k].workflow)]],
     root_ids |-> dag.root_ids,
     execution_order |-> dag.execution_order,
     pricing |-> [total_download_cost |-> TotalDownload(dag.nodes),
                  total_execution_cost |-> TotalExecution(dag.nodes)],
     metadata |-> [coverage |-> dag.coverage, overall_confidence |-> dag.overall_confidence]]

\* solution_summary of estimate_price_and_search for the i-th ranked DAG
SolutionSummary(i, dag) ==
    [solution_id |-> i,
     rank |-> i,
     confidence_score |-> dag.overall_confidence,
     pricing |-> [total_cost_tokens |-> dag.total_download_cost + dag.total_execution_cost,
                  download_cost |-> dag.total_download_cost,
                  execution_cost |-> dag.total_execution_cost],
     full_dag_dict |-> ToDictWithWorkflows(dag)]

\* the solutions list estimate_price_and_search builds from dag_solutions
BuildSolutions(dag_solutions) ==
    [i \in 1..Len(dag_solutions) |-> SolutionSummary(i, dag_solutions[i])]

\* The solutions of an estimate with top_k = n whose search returned a direct
\* plan over the catalog for a task of two subtasks: recompose ranks a plan
\* on the top workflow, a plan that runs the tax workflow for both subtasks
\* and, from top_k = 3 on, a variant on the third workflow
RankedCatalog == <<CatTax, CatTrip, CatData>>
QuotedSubtasks == <<[text |-> "A", task_type |-> "tax_filing", weight |-> 10],
                    [text |-> "B", task_type |-> "general", weight |-> 5]>>
SolutionList(n) ==
    BuildSolutions(Recompose(QuotedSubtasks, DirectPlan(RankedCatalog, 40), n, <<-100, -100>>).dags)
SolutionLists == [n \in 0..MaxSolutions |-> SolutionList(n)]

\* search plans decomposer.search hands to estimate_price_and_search
EstimatePlans == {DirectPlan(<<>>, 0), DirectPlan(<<CatTax, CatTrip>>, 40)}

\* attributes a SearchPlan object has
SearchPlanAttributes ==
    {"plan_type", "workflows", "overall_score", "subtasks", "subtask_workflow_mapping",
     "coverage", "is_composite"}

\* CacheService.cache_solution
cache_solution(cache, session_id, solutions) ==
    [cache EXCEPT ![session_id] = [kind |-> "entry", solutions |-> solutions]]

\* CacheService.delete_solution
delete_solution(cache, session_id) == [cache EXCEPT ![session_id] = NoEntry]

\* CacheService.get_solution: the cached list, or None
get_solution(cache, session_id) == cache[session_id]

\* estimate_price_and_search up to the return of decomposer.search, which
\* may let an exception through
EstimateSearch(c, require_close_match) ==
    /\ estimates[c].pc # "searched"
    /\ \/ \E plan \in EstimatePlans :
             estimates' = [estimates EXCEPT ![c] =
                 [pc |-> "searched", require_close_match |-> require_close_match,
                  search_plan |-> plan]]
       \/ estimates' = [estimates EXCEPT ![c] =
                 [pc |-> "raised", require_close_match |-> require_close_match,
                  search_plan |-> NoPlan, error |-> "search"]]
    /\ UNCHANGED <<session_cache, lastBuy>>
    /\ UNCHANGED <<searchVars, composeVars, recomposeVars, pricingVars, sortVars, clientVars, commerceVars>>

\* estimate_price_and_search after the search: the report of the plan reads
\* search_plan.final_depth and search_plan.max_depth_reached
EstimateReport(c) ==
    /\ estimates[c].pc = "searched"
    /\ {"final_depth", "max_depth_reached"} \cap SearchPlanAttributes = {}
    /\ estimates' = [estimates EXCEPT ![c] =
           [pc |-> "raised", require_close_match |-> estimates[c].require_close_match,
            search_plan |-> estimates[c].search_plan, error |-> "AttributeError"]]
    /\ UNCHANGED <<session_cache, lastBuy>>
    /\ UNCHANGED <<searchVars, composeVars, recomposeVars, pricingVars, sortVars, clientVars, commerceVars>>

\* A call of CacheService.cache_solution on the shared cache
CacheSolution(session_id, n) ==
    /\ session_cache' = cache_solution(session_cache, session_id, SolutionLists[n])
    /\ UNCHANGED <<estimates, lastBuy>>
    /\ UNCHANGED <<searchVars, composeVars, recomposeVars, pricingVars, sortVars, clientVars, commerceVars>>

\* for sol in solutions: if sol["solution_id"] == solution_id
SelectedIdx(solutions, solution_id) ==
    IF \E k \in 1..Len(solutions) : solutions[k].solution_id = solution_id
    THEN CHOOSE k \in 1..Len(solutions) :
             /\ solutions[k].solution_id = solution_id
             /\ \A j \in 1..(k - 1) : solutions[j].solution_id # solution_id
    ELSE 0

\* not solutions: None and the empty list alike
NotSolutions(entry) == entry = NoEntry \/ entry.solutions = <<>>

\* a receipt whose total is the sum of its per-workflow charges
PurchaseReceipt_NaiveTotal(purchase_id, session_id, solution_id, dag_dict) ==
    LET charges == [k \in 1..Len(dag_dict.nodes) |->
                       dag_dict.nodes[k].workflow.download_cost + dag_dict.nodes[k].workflow.execution_cost]
    IN  [purchase_id |-> purchase_id,
         session_id |-> session_id,
         solution_id |-> solution_id,
         tokens_charged |-> SumSeq(charges),
         num_workflows |-> Len(dag_dict.execution_order),
         execution_order |-> dag_dict.execution_order,
         root_ids |-> dag_dict.root_ids,
         workflows |-> [k \in 1..Len(dag_dict.execution_order) |->
             LET node == NodeOf(dag_dict.nodes, dag_dict.execution_order[k])
             IN  [subtask_id |-> node.id,
                  workflow_id |-> node.workflow.workflow_id,
                  dependencies |-> node.dependencies,
                  children |-> node.children,
                  tokens_charged |-> node.workflow.download_cost + node.workflow.execution_cost]]]

\* purchase_receipt of buy_solution, rebuilt from the cached dict
PurchaseReceipt(purchase_id, session_id, solution_id, dag_dict) ==
    [purchase_id |-> purchase_id,
     session_id |-> session_id,
     solution_id |-> solution_id,
     tokens_charged |-> dag_dict.pricing.total_download_cost + dag_dict.pricing.total_execution_cost,
     num_workflows |-> Len(dag_dict.execution_order),
     execution_order |-> dag_dict.execution_order,
     root_ids |-> dag_dict.root_ids,
     workflows |-> [k \in 1..Len(dag_dict.execution_order) |->
         LET node == NodeOf(dag_dict.nodes, dag_dict.execution_order[k])
             workflow == Workflow_from_dict(node.workflow)
         IN  [subtask_id |-> node.id,
              workflow_id |-> workflow.id,
              dependencies |-> node.dependencies,
              children |-> node.children,
              tokens_charged |-> workflow.download_cost + workflow.execution_cost]]]

\* a purchase that deletes the session it bought from
CacheAfterBuy_Delete(cache, session_id) == delete_solution(cache, session_id)

\* the cache after a purchase: buy_solution only reads it
CacheAfterBuy(cache, session_id) == cache

\* buy_solution
BuySolution(session_id, solution_id) ==
    LET solutions == get_solution(session_cache, session_id)
        request == [kind |-> "buy", session_id |-> session_id, solution_id |-> solution_id,
                    solutions |-> solutions]
    IN  /\ IF NotSolutions(solutions)
           THEN /\ lastBuy' = [request EXCEPT !.kind = "session_not_found"]
                /\ UNCHANGED session_cache
           ELSE LET idx == SelectedIdx(solutions.solutions, solution_id)
                IN  IF idx = 0
                    THEN /\ lastBuy' = [request EXCEPT !.kind = "solution_not_found"]
                         /\ UNCHANGED session_cache
                    ELSE /\ \E purchase_id \in PurchaseIds :
                              lastBuy' = [kind |-> "purchased", session_id |-> session_id,
                                          solution_id |-> solution_id, solutions |-> solutions,
                                          receipt |-> PurchaseReceipt(purchase_id, session_id, solution_id,
                                                          solutions.solutions[idx].full_dag_dict)]
                         /\ session_cache' = CacheAfterBuy(session_cache, session_id)
        /\ UNCHANGED estimates
        /\ UNCHANGED <<searchVars, composeVars, recomposeVars, pricingVars, sortVars, clientVars, commerceVars>>

OrchestratorSpecInit ==
    /\ SearchInit
    /\ cIn = NotCalled
    /\ cOut = NotCalled
    /\ rIn = NotCalled
    /\ rOut = NotCalled
    /\ pIn = NotCalled
    /\ pOut = NotCalled
    /\ OrchestratorInit
    /\ sorter = NotCalled
    /\ http_call = NotCalled
    /\ CommerceInit

OrchestratorNext ==
    \/ \E c \in Clients, require_close_match \in BOOLEAN : EstimateSearch(c, require_close_match)
    \/ \E c \in Clients : EstimateReport(c)
    \/ \E session_id \in SessionIds, n \in 0..MaxSolutions : CacheSolution(session_id, n)
    \/ \E session_id \in SessionIds, solution_id \in SolutionIds : BuySolution(session_id, solution_id)

OrchestratorSpec == OrchestratorSpecInit /\ [][OrchestratorNext]_vars


\* a call of estimate_price_and_search has ended, by a return or an exception
Finished(c) == estimates[c].pc \in {"returned", "raised"}

\* C14: a non-strict estimate whose search found at least one candidate
\* does not raise: it returns at least one solution and a session id.
C14_NonStrictReturnsSolution ==
    \A c \in Clients :
        (/\ Finished(c)
         /\ ~estimates[c].require_close_match
         /\ estimates[c].search_plan # NoPlan
         /\ estimates[c].search_plan.workflows # <<>>) =>
            /\ estimates[c].pc = "returned"
            /\ Len(estimates[c].solutions) >= 1
            /\ estimates[c].session_id # "none"

\* C15: a strict estimate that got a plan from the search returns: either
\* the no-close-match result (no solutions, no session id, the diagnostics
\* final_depth, best_score and max_depth_reached) or the solutions of the
\* non-strict call with their session id.
C15_StrictReturns ==
    \A c \in Clients :
        (/\ Finished(c)
         /\ estimates[c].require_close_match
         /\ estimates[c].search_plan # NoPlan) =>
            /\ estimates[c].pc = "returned"
            /\ \/ /\ estimates[c].solutions = <<>>
                  /\ estimates[c].session_id = "none"
                  /\ estimates[c].quality_control.triggered
                  /\ estimates[c].quality_control.best_score = estimates[c].search_plan.overall_score
               \/ /\ estimates[c].solutions # <<>>
                  /\ estimates[c].session_id # "none"

\* C16: buy_solution reports session-not-found exactly when the cache has no
\* entry for the session id, and invalid-solution exactly when the entry
\* exists and holds no solution of that id, be the cached list empty or not.
C16_BuyErrors ==
    lastBuy # NotCalled =>
        /\ lastBuy.kind = "session_not_found" <=> lastBuy.solutions = NoEntry
        /\ lastBuy.kind = "solution_not_found" <=>
              /\ lastBuy.solutions # NoEntry
              /\ SelectedIdx(lastBuy.solutions.solutions, lastBuy.solution_id) = 0

\* a step of an estimate or of a purchase, not a write through CacheService
EstimateOrBuyStep == estimates' # estimates \/ lastBuy' # lastBuy

Bought == lastBuy.solutions.solutions[SelectedIdx(lastBuy.solutions.solutions, lastBuy.solution_id)]

\* Two nodes of the plan run the same workflow
SharesWorkflow(nodes) ==
    \E i, j \in 1..Len(nodes) : i # j /\ nodes[i].workflow.workflow_id = nodes[j].workflow.workflow_id

MaxSortNodes == 5

SortCatalog == {CatTax, CatTrip}

\* nodes = {} filled by _create_dag_from_composite: node i - 1 for subtask i
FreshNodes(n, wf, w) == [k \in 1..n |-> SubtaskNode(k - 1, wf[k], w[k])]

\* The (parent_id, child_id) pairs of the edges the nodes carry
EdgeSet(nodes) ==
    {<<nodes[j].id, nodes[i].id>> : i \in 1..Len(nodes), j \in 1..Len(nodes)}
        \cap {e \in SeqToSet(NodeIds(nodes)) \X SeqToSet(NodeIds(nodes)) :
                 e[1] \in SeqToSet(NodeOf(nodes, e[2]).dependencies)}

\* The nodes one Kahn pass leaves unsorted, in dict order
CycleNodes(nodes) ==
    LET sorted_order == Kahn(nodes)
    IN  SelectSeq(NodeIds(nodes), LAMBDA id : id \notin SeqToSet(sorted_order))

SortInit ==
    /\ SearchInit
    /\ cIn = NotCalled
    /\ cOut = NotCalled
    /\ rIn = NotCalled
    /\ rOut = NotCalled
    /\ pIn = NotCalled
    /\ pOut = NotCalled
    /\ OrchestratorInit
    /\ http_call = NotCalled
    /\ CommerceInit
    /\ \E n \in 1..MaxSortNodes :
           \E wf \in [1..n -> SortCatalog], w \in [1..n -> NodeWeights] :
               sorter = [pc |-> "created", nodes |-> FreshNodes(n, wf, w),
                         inferred |-> <<>>, attempt |-> 0, removed |-> <<>>,
                         sorted_order |-> <<>>, fallback |-> FALSE, raises |-> FALSE]

\* self._infer_dependencies(nodes)
Infer ==
    /\ sorter.pc = "created"
    /\ sorter' = [sorter EXCEPT !.pc = "loop",
                                !.nodes = InferDependencies(sorter.nodes),
                                !.inferred = InferDependencies(sorter.nodes)]
    /\ UNCHANGED <<searchVars, composeVars, recomposeVars, pricingVars, orchestratorVars,
                   clientVars, commerceVars>>

\* One pass of "while attempt < max_attempts": Kahn's algorithm, then either
\* the return of a complete order or the removal of the weakest edge
RepairRound ==
    /\ sorter.pc = "loop"
    /\ sorter.attempt < MAX_ATTEMPTS
    /\ LET nodes == sorter.nodes
           sorted_order == Kahn(nodes)
           cycle_nodes == CycleNodes(nodes)
           weakest_edge == FindWeakestEdgeInCycle(nodes, cycle_nodes)
       IN  sorter' =
             IF Len(sorted_order) = Len(nodes)
             THEN [sorter EXCEPT !.pc = "done", !.sorted_order = sorted_order]
             ELSE IF weakest_edge # NoEdge
             THEN IF RemoveRaises(nodes, weakest_edge)
                  THEN [sorter EXCEPT !.pc = "done", !.raises = TRUE]
                  ELSE [sorter EXCEPT !.nodes = RemoveEdge(nodes, weakest_edge),
                                      !.removed = Append(@, weakest_edge),
                                      !.attempt = @ + 1]
             ELSE [sorter EXCEPT !.pc = "final",
                                 !.nodes = ClearCycleEdges(nodes, cycle_nodes)]
    /\ UNCHANGED <<searchVars, composeVars, recomposeVars, pricingVars, orchestratorVars,
                   clientVars, commerceVars>>

\* The "final attempt" after the loop: Kahn's algorithm once more, and the
\* weight order when cycles remain
FinalAttempt ==
    /\ \/ sorter.pc = "final"
       \/ sorter.pc = "loop" /\ sorter.attempt >= MAX_ATTEMPTS
    /\ LET srt == FinalSort(sorter.nodes, FALSE)
       IN  sorter' = [sorter EXCEPT !.pc = "done", !.sorted_order = srt.order,
                                    !.fallback = srt.fallback]
    /\ UNCHANGED <<searchVars, composeVars, recomposeVars, pricingVars, orchestratorVars,
                   clientVars, commerceVars>>

SortNext ==
    \/ Infer
    \/ RepairRound
    \/ FinalAttempt

SortSpec == SortInit /\ [][SortNext]_vars

\* The sort stepped round by round ends as _topological_sort computed in one go
SortAgrees ==
    (sorter # NotCalled /\ sorter.pc = "done") =>
        LET srt == TopologicalSort(sorter.inferred)
        IN  /\ srt.order = sorter.sorted_order
            /\ srt.nodes = sorter.nodes
            /\ srt.fallback = sorter.fallback
            /\ srt.raises = sorter.raises

\* The pairs of nodes with an edge in both directions
TwoCycles(nodes) == {e \in EdgeSet(nodes) : <<e[2], e[1]>> \in EdgeSet(nodes) /\ e[1] < e[2]}

Before(order, a, b) == IndexOf(order, a) # 0 /\ IndexOf(order, a) < IndexOf(order, b)

Unsorted(nodes) == SeqToSet(CycleNodes(nodes))

\* C24: the repair loop makes at most 5 rounds, and when cycles remain after
\* them every node left unsorted loses its dependencies and children and the
\* order is the descending-weight order.
C24_FallbackClearsEdges ==
    [][(sorter.pc \in {"loop", "final"} /\ sorter'.pc = "done" /\ sorter'.fallback) =>
          /\ Len(sorter'.removed) <= MAX_ATTEMPTS
          /\ sorter'.sorted_order = SortByWeight(sorter.nodes, NodeIds(sorter.nodes))
          /\ \A k \in 1..Len(sorter.nodes) :
                sorter.nodes[k].id \in Unsorted(sorter.nodes) =>
                    /\ sorter'.nodes[k].dependencies = <<>>
                    /\ sorter'.nodes[k].children = <<>>]_vars

\* The edges between two nodes that Kahn's algorithm left unsorted
InternalEdges(nodes) ==
    {e \in EdgeSet(nodes) : e[1] \in Unsorted(nodes) /\ e[2] \in Unsorted(nodes)}

MaxRetries == 3

TransportFailures == {"ConnectionError", "Timeout"}
HttpStatuses == {200, 400, 401, 402, 404, 410, 429, 500, 503}
BodyKinds == {"object", "array", "text"}

Failure(exception) == [kind |-> "failure", exception |-> exception, status |-> 0, body |-> "none"]
Answer(status, body) == [kind |-> "answer", exception |-> "none", status |-> status, body |-> body]

\* The MarkError subclass _handle_response raises for a status other than 200
TypedError(status) ==
    CASE status = 401 -> "AuthenticationError"
      [] status = 402 -> "InsufficientCreditsError"
      [] status = 404 -> "WorkflowNotFoundError"
      [] status = 410 -> "SessionExpiredError"
      [] status = 429 -> "RateLimitError"
      [] status >= 500 -> "ServerError"
      [] OTHER -> "MarkError"

\* _handle_response: response.json() with the {"error": text} fallback, the
\* body returned on 200, data.get(...) and the typed error otherwise; data.get
\* raises AttributeError when the JSON value is not an object
HandleResponse(status, body) ==
    IF status = 200 THEN [kind |-> "return", error |-> "none", status |-> 200]
    ELSE IF body = "array" THEN [kind |-> "exception", error |-> "AttributeError", status |-> 0]
    ELSE [kind |-> "mark_error", error |-> TypedError(status), status |-> status]

\* MarkClient(max_retries=...) about to call _request
ClientInit ==
    /\ SearchInit
    /\ cIn = NotCalled
    /\ cOut = NotCalled
    /\ rIn = NotCalled
    /\ rOut = NotCalled
    /\ pIn = NotCalled
    /\ pOut = NotCalled
    /\ OrchestratorInit
    /\ sorter = NotCalled
    /\ CommerceInit
    /\ \E max_retries \in 0..MaxRetries :
           http_call = [pc |-> "loop", max_retries |-> max_retries, attempt |-> 0,
                        met |-> <<>>, error |-> "none", status_code |-> 0]

\* An attempt of the loop ends in requests.ConnectionError or requests.Timeout:
\* sleep and continue, or ServerError(503) after the last attempt
TransportFails(exception) ==
    /\ http_call.pc = "loop"
    /\ http_call.attempt < http_call.max_retries
    /\ http_call' =
          IF http_call.attempt < http_call.max_retries - 1
          THEN [http_call EXCEPT !.attempt = @ + 1, !.met = Append(@, Failure(exception))]
          ELSE [http_call EXCEPT !.pc = "raised", !.met = Append(@, Failure(exception)),
                                 !.error = "ServerError", !.status_code = 503]
    /\ UNCHANGED <<searchVars, composeVars, recomposeVars, pricingVars, orchestratorVars,
                   sortVars, commerceVars>>

\* An attempt of the loop gets an HTTP response: _handle_response returns the
\* body, raises a MarkError that _request lets through, or raises another
\* exception, on which _request goes on to the next attempt
ServerAnswers(status, body) ==
    /\ http_call.pc = "loop"
    /\ http_call.attempt < http_call.max_retries
    /\ LET handled == HandleResponse(status, body)
           met == Append(http_call.met, Answer(status, body))
       IN  http_call' =
             CASE handled.kind = "return" ->
                    [http_call EXCEPT !.pc = "returned", !.met = met, !.status_code = 200]
               [] handled.kind = "mark_error" ->
                    [http_call EXCEPT !.pc = "raised", !.met = met, !.error = handled.error,
                                      !.status_code = handled.status]
               [] OTHER ->
                    [http_call EXCEPT !.attempt = @ + 1, !.met = met]
    /\ UNCHANGED <<searchVars, composeVars, recomposeVars, pricingVars, orchestratorVars,
                   sortVars, commerceVars>>

\* The loop is over without a return or a raise: ServerError("Request failed")
RequestFailed ==
    /\ http_call.pc = "loop"
    /\ http_call.attempt >= http_call.max_retries
    /\ http_call' = [http_call EXCEPT !.pc = "raised", !.error = "ServerError", !.status_code = 500]
    /\ UNCHANGED <<searchVars, composeVars, recomposeVars, pricingVars, orchestratorVars,
                   sortVars, commerceVars>>

ClientNext ==
    \/ \E exception \in TransportFailures : TransportFails(exception)
    \/ \E status \in HttpStatuses, body \in BodyKinds : ServerAnswers(status, body)
    \/ RequestFailed

ClientSpec == ClientInit /\ [][ClientNext]_vars

\* C22: an attempt the server answers is never retried: it is the last
\* attempt of the call, which returns the body on 200 and raises the typed
\* error of any other status (a call answered first makes exactly one
\* attempt); a call whose attempts all end in a connection error or timeout
\* makes max_retries attempts and raises ServerError.
C22_RetryOnlyTransport ==
    LET met == http_call.met
    IN  /\ \A k \in 1..Len(met) :
              met[k].kind = "answer" =>
                  /\ k = Len(met)
                  /\ http_call.pc # "loop"
                  /\ met[k].status = 200 => http_call.pc = "returned"
                  /\ met[k].status # 200 =>
                        /\ http_call.pc = "raised"
                        /\ http_call.error = TypedError(met[k].status)
                        /\ http_call.status_code = met[k].status
        /\ (http_call.pc # "loop" /\ \A k \in 1..Len(met) : met[k].kind = "failure") =>
              /\ Len(met) = http_call.max_retries
              /\ http_call.pc = "raised"
              /\ http_call.error = "ServerError"


\* ------------------------------------------------------------------------
\* CommerceEngine behind the commerce routes of api.py: balances, carts,
\* creator earnings and the transaction log, one request at a time
\* (CommerceSpec) and with the requests of two server threads interleaved
\* (ThreadedSpec).
\* ------------------------------------------------------------------------

\* Longest transaction log explored
MaxTransactions == 3

PLATFORM_COMMISSION == 15

\* amounts a deposit request carries; the route refuses those <= 0
DepositAmounts == {-1000, 1000}

\* workflows matcher.get_workflow_by_id can return: one without cost, one
\* with a creator
CommerceCatalog ==
    { [workflow_id |-> "packing_checklist", token_cost |-> 0, creator_id |-> "none"],
      [workflow_id |-> "tax_optimizer", token_cost |-> 3000, creator_id |-> "alice"] }

\* the three stores purchase_workflow works on
Engine == [user_balances |-> user_balances, transactions |-> transactions,
           creator_earnings |-> creator_earnings]

get_balance(balances, user_id) == IF user_id \in DOMAIN balances THEN balances[user_id] ELSE 0

\* ShoppingCart.add_item's entry for a workflow: workflow_id and token_cost
\* are copied (title and rating are left out here), creator_id is not
CartItem(workflow) ==
    [workflow_id |-> workflow.workflow_id, token_cost |-> workflow.token_cost, creator_id |-> "none"]

add_item(items, workflow) ==
    IF \E k \in 1..Len(items) : items[k].workflow_id = workflow.workflow_id
    THEN items
    ELSE Append(items, CartItem(workflow))

remove_item(items, workflow_id) == SelectSeq(items, LAMBDA i : i.workflow_id # workflow_id)

RECURSIVE get_total(_)
get_total(items) == IF items = <<>> THEN 0 ELSE Head(items).token_cost + get_total(Tail(items))

Transaction(tx_type, workflow_id, amount, buyer_id, seller_id) ==
    [tx_type |-> tx_type, workflow_id |-> workflow_id, amount |-> amount,
     buyer_id |-> buyer_id, seller_id |-> seller_id]

CreatorShare(cost) == (cost * (100 - PLATFORM_COMMISSION)) \div 100

\* purchase_workflow from "Deduct from buyer" on, on the stores e: the
\* stores afterwards.  user_balances[user_id] -= cost raises KeyError for a
\* user without an entry (get_balance read 0 for them).
DeductAndRecord(e, user_id, workflow) ==
    LET cost == workflow.token_cost
        creator == IF workflow.creator_id # "none" THEN workflow.creator_id ELSE "marketplace"
        earned == e.creator_earnings
    IN  IF user_id \notin DOMAIN e.user_balances THEN [engine |-> e, outcome |-> "KeyError"]
        ELSE [engine |->
                [user_balances |-> [e.user_balances EXCEPT ![user_id] = @ - cost],
                 creator_earnings |->
                     [c \in DOMAIN earned \cup {creator} |->
                         (IF c \in DOMAIN earned THEN earned[c] ELSE 0)
                         + (IF c = creator THEN CreatorShare(cost) ELSE 0)],
                 transactions |->
                     Append(e.transactions,
                            Transaction("purchase", workflow.workflow_id, cost, user_id, creator))],
              outcome |-> "success"]

\* purchase_workflow on the stores e: the receipt's outcome and the stores
\* afterwards
purchase_workflow(e, user_id, workflow) ==
    IF get_balance(e.user_balances, user_id) < workflow.token_cost
    THEN [engine |-> e, outcome |-> "insufficient"]
    ELSE DeductAndRecord(e, user_id, workflow)

\* the loop of checkout_cart over cart.items: every item goes through
\* purchase_workflow, a receipt without success is only collected, an
\* exception ends the loop
RECURSIVE purchase_items(_, _, _)
purchase_items(e, user_id, items) ==
    IF items = <<>> THEN [engine |-> e, outcome |-> "success"]
    ELSE LET bought == purchase_workflow(e, user_id, Head(items))
         IN  IF bought.outcome = "KeyError" THEN bought
             ELSE purchase_items(bought.engine, user_id, Tail(items))

\* a checkout that leaves the balance check to purchase_workflow
checkout_cart_Unchecked(e, cart, user_id) ==
    IF cart = NoCart \/ cart.items = <<>> THEN [engine |-> e, outcome |-> "cart_empty", clear |-> FALSE]
    ELSE LET done == purchase_items(e, user_id, cart.items)
         IN  [engine |-> done.engine, outcome |-> done.outcome, clear |-> done.outcome = "success"]

\* checkout_cart on the stores e and the user's cart: the outcome, the stores
\* afterwards and whether cart.clear() was reached
checkout_cart(e, cart, user_id) ==
    IF cart = NoCart \/ cart.items = <<>> THEN [engine |-> e, outcome |-> "cart_empty", clear |-> FALSE]
    ELSE IF get_balance(e.user_balances, user_id) < get_total(cart.items)
    THEN [engine |-> e, outcome |-> "insufficient", clear |-> FALSE]
    ELSE LET done == purchase_items(e, user_id, cart.items)
         IN  [engine |-> done.engine, outcome |-> done.outcome, clear |-> done.outcome = "success"]

Response(op, user_id, outcome) == [pc |-> "idle", op |-> op, user_id |-> user_id, outcome |-> outcome]

SetEngine(e) ==
    /\ user_balances' = e.user_balances
    /\ transactions' = e.transactions
    /\ creator_earnings' = e.creator_earnings

\* get_cart: the user's cart, created on first use
get_cart(user_id) == IF carts[user_id] = NoCart THEN [kind |-> "cart", items |-> <<>>] ELSE carts[user_id]

\* POST /api/commerce/deposit
Deposit(t, user_id, amount) ==
    /\ threads[t].pc = "idle"
    /\ IF amount <= 0
       THEN /\ threads' = [threads EXCEPT ![t] = Response("deposit", user_id, "refused")]
            /\ UNCHANGED <<user_balances, transactions, carts, creator_earnings>>
       ELSE /\ Len(transactions) < MaxTransactions
            /\ user_balances' =
                   [u \in DOMAIN user_balances \cup {user_id} |->
                       IF u = user_id THEN get_balance(user_balances, user_id) + amount
                       ELSE user_balances[u]]
            /\ transactions' = Append(transactions, Transaction("deposit", "none", amount, user_id, "none"))
            /\ threads' = [threads EXCEPT ![t] = Response("deposit", user_id, "success")]
            /\ UNCHANGED <<carts, creator_earnings>>
    /\ UNCHANGED <<searchVars, composeVars, recomposeVars, pricingVars, orchestratorVars,
                   sortVars, clientVars>>

\* POST /api/purchase, the whole request
PurchaseWorkflow(t, user_id, workflow) ==
    /\ threads[t].pc = "idle"
    /\ Len(transactions) < MaxTransactions
    /\ LET receipt == purchase_workflow(Engine, user_id, workflow)
       IN  /\ SetEngine(receipt.engine)
           /\ threads' = [threads EXCEPT
                            ![t] = Response("purchase", user_id, receipt.outcome)]
    /\ UNCHANGED carts
    /\ UNCHANGED <<searchVars, composeVars, recomposeVars, pricingVars, orchestratorVars,
                   sortVars, clientVars>>

\* POST /api/commerce/cart/add
AddToCart(t, user_id, workflow) ==
    /\ threads[t].pc = "idle"
    /\ LET cart == get_cart(user_id)
           items == add_item(cart.items, workflow)
       IN  /\ carts' = [carts EXCEPT ![user_id] = [cart EXCEPT !.items = items]]
           /\ threads' = [threads EXCEPT
                            ![t] = Response("cart_add", user_id,
                                            IF items = cart.items THEN "already_in_cart" ELSE "success")]
    /\ UNCHANGED <<user_balances, transactions, creator_earnings>>
    /\ UNCHANGED <<searchVars, composeVars, recomposeVars, pricingVars, orchestratorVars,
                   sortVars, clientVars>>

\* POST /api/commerce/cart/remove
RemoveFromCart(t, user_id, workflow_id) ==
    /\ threads[t].pc = "idle"
    /\ LET cart == get_cart(user_id)
       IN  carts' = [carts EXCEPT ![user_id] = [cart EXCEPT !.items = remove_item(cart.items, workflow_id)]]
    /\ threads' = [threads EXCEPT ![t] = Response("cart_remove", user_id, "success")]
    /\ UNCHANGED <<user_balances, transactions, creator_earnings>>
    /\ UNCHANGED <<searchVars, composeVars, recomposeVars, pricingVars, orchestratorVars,
                   sortVars, clientVars>>

\* POST /api/commerce/checkout, the whole request
CheckoutCart(t, user_id) ==
    /\ threads[t].pc = "idle"
    /\ LET cart == carts[user_id]
           done == checkout_cart(Engine, cart, user_id)
       IN  /\ cart # NoCart => Len(transactions) + Len(cart.items) <= MaxTransactions
           /\ SetEngine(done.engine)
           /\ carts' = IF done.clear THEN [carts EXCEPT ![user_id].items = <<>>] ELSE carts
           /\ threads' = [threads EXCEPT ![t] = Response("checkout", user_id, done.outcome)]
    /\ UNCHANGED <<searchVars, composeVars, recomposeVars, pricingVars, orchestratorVars,
                   sortVars, clientVars>>

\* a fresh CommerceEngine, no request under way
EngineInit ==
    /\ SearchInit
    /\ cIn = NotCalled
    /\ cOut = NotCalled
    /\ rIn = NotCalled
    /\ rOut = NotCalled
    /\ pIn = NotCalled
    /\ pOut = NotCalled
    /\ OrchestratorInit
    /\ sorter = NotCalled
    /\ http_call = NotCalled
    /\ CommerceInit

\* the requests of one client, served one after the other
CommerceNext ==
    \/ \E user_id \in Users, amount \in DepositAmounts : Deposit("t1", user_id, amount)
    \/ \E user_id \in Users, workflow \in CommerceCatalog : PurchaseWorkflow("t1", user_id, workflow)
    \/ \E user_id \in Users, workflow \in CommerceCatalog : AddToCart("t1", user_id, workflow)
    \/ \E user_id \in Users, workflow \in CommerceCatalog :
           RemoveFromCart("t1", user_id, workflow.workflow_id)
    \/ \E user_id \in Users : CheckoutCart("t1", user_id)

CommerceSpec == EngineInit /\ [][CommerceNext]_vars

RECURSIVE SharesOf(_)
SharesOf(items) ==
    IF items = <<>> THEN 0 ELSE CreatorShare(Head(items).token_cost) + SharesOf(Tail(items))

PurchaseCheck(t, user_id, workflow) ==
    /\ threads[t].pc = "idle"
    /\ Len(transactions) + Cardinality({w \in Workers : threads[w].pc = "deduct"}) < MaxTransactions
    /\ threads' =
          [threads EXCEPT
             ![t] = IF get_balance(user_balances, user_id) < workflow.token_cost
                    THEN Response("purchase", user_id, "insufficient")
                    ELSE [pc |-> "deduct", user_id |-> user_id, workflow |-> workflow]]
    /\ UNCHANGED <<user_balances, transactions, carts, creator_earnings>>
    /\ UNCHANGED <<searchVars, composeVars, recomposeVars, pricingVars, orchestratorVars,
                   sortVars, clientVars>>

\* purchase_workflow from the deduction on, whatever the balance is by now
PurchaseDeduct(t) ==
    /\ threads[t].pc = "deduct"
    /\ LET user_id == threads[t].user_id
           workflow == threads[t].workflow
           receipt == DeductAndRecord(Engine, user_id, workflow)
       IN  /\ SetEngine(receipt.engine)
           /\ threads' = [threads EXCEPT
                            ![t] = Response("purchase", user_id, receipt.outcome)]
    /\ UNCHANGED carts
    /\ UNCHANGED <<searchVars, composeVars, recomposeVars, pricingVars, orchestratorVars,
                   sortVars, clientVars>>

\* one thread serves any request, the other one purchase requests
ThreadedNext ==
    \/ \E user_id \in Users, amount \in DepositAmounts : Deposit("t1", user_id, amount)
    \/ \E t \in Workers, user_id \in Users, workflow \in CommerceCatalog :
           PurchaseCheck(t, user_id, workflow)
    \/ \E t \in Workers : PurchaseDeduct(t)
    \/ \E user_id \in Users, workflow \in CommerceCatalog : AddToCart("t1", user_id, workflow)
    \/ \E user_id \in Users, workflow \in CommerceCatalog :
           RemoveFromCart("t1", user_id, workflow.workflow_id)
    \/ \E user_id \in Users : CheckoutCart("t1", user_id)

ThreadedSpec == EngineInit /\ [][ThreadedNext]_vars

\* C29: with the requests of two threads interleaved, every balance in
\* user_balances is >= 0.
C29_BalancesNeverNegative ==
    \A u \in DOMAIN user_balances : user_balances[u] >= 0


====
